---- MODULE Spec2Model ----
\* Prompt composition (story_generator.py) and the per-page image loops
\* (image_generator_lora.py, dual_lora_generator.py) as state machines.
\* A Python str is a sequence of one-character strings, so that substring
\* search, slicing, replace, split, strip and lower are computed character by
\* character, as the interpreter does.
EXTENDS Integers, Sequences, FiniteSets, TLC

\* ------------------------------------------------------------------------
\* Python str primitives
\* ------------------------------------------------------------------------

\* the upper-case letters and their lower-case forms
LowerOf ==
    [c \in {"A", "B", "C", "D", "E", "F", "G", "H", "I", "J", "K", "L", "M",
            "N", "O", "P", "Q", "R", "S", "T", "U", "V", "W", "X", "Y", "Z"} |->
        CASE c = "A" -> "a" [] c = "B" -> "b" [] c = "C" -> "c" [] c = "D" -> "d"
          [] c = "E" -> "e" [] c = "F" -> "f" [] c = "G" -> "g" [] c = "H" -> "h"
          [] c = "I" -> "i" [] c = "J" -> "j" [] c = "K" -> "k" [] c = "L" -> "l"
          [] c = "M" -> "m" [] c = "N" -> "n" [] c = "O" -> "o" [] c = "P" -> "p"
          [] c = "Q" -> "q" [] c = "R" -> "r" [] c = "S" -> "s" [] c = "T" -> "t"
          [] c = "U" -> "u" [] c = "V" -> "v" [] c = "W" -> "w" [] c = "X" -> "x"
          [] c = "Y" -> "y" [] c = "Z" -> "z"]

\* str.lower() on one character
LowerChar(c) == IF c \in DOMAIN LowerOf THEN LowerOf[c] ELSE c

\* str.lower()
Lower(s) == SubSeq([i \in 1..Len(s) |-> LowerChar(s[i])], 1, Len(s))

\* sub occurs in s at the 1-based position i
MatchAt(s, sub, i) ==
    /\ i >= 1
    /\ i + Len(sub) - 1 <= Len(s)
    /\ \A j \in 1..Len(sub) : s[i + j - 1] = sub[j]

\* str.find(sub, start): the 0-based index of the first occurrence at or
\* after the 0-based index start, or -1
FindAt(s, sub, start) ==
    LET hits == {i \in (start + 1)..(Len(s) - Len(sub) + 1) : MatchAt(s, sub, i)}
    IN  IF hits = {} THEN -1
        ELSE (CHOOSE i \in hits : \A j \in hits : i <= j) - 1

\* str.find(sub)
Find(s, sub) == FindAt(s, sub, 0)

\* the operator `sub in s`
Contains(sub, s) == Find(s, sub) # -1

\* the slice s[:n] for n >= 0
SliceTo(s, n) == SubSeq(s, 1, IF n < Len(s) THEN n ELSE Len(s))

\* the slice s[a:b] for 0 <= a, b
Slice(s, a, b) == SubSeq(s, a + 1, IF b < Len(s) THEN b ELSE Len(s))

RECURSIVE ReplaceFrom(_, _, _, _, _)
\* acc holds the result for s[:start]; one step per occurrence of old
ReplaceFrom(s, old, new, start, acc) ==
    LET hit == FindAt(s, old, start)
    IN  IF hit = -1 THEN acc \o SubSeq(s, start + 1, Len(s))
        ELSE ReplaceFrom(s, old, new, hit + Len(old),
                         acc \o SubSeq(s, start + 1, hit) \o new)

\* str.replace(old, new) for a non-empty old: leftmost, non-overlapping
Replace(s, old, new) == ReplaceFrom(s, old, new, 0, <<>>)

RECURSIVE SplitFrom(_, _, _, _)
\* acc holds the pieces that end before the 0-based index start
SplitFrom(s, sep, start, acc) ==
    LET hit == FindAt(s, <<sep>>, start)
    IN  IF hit = -1 THEN Append(acc, SubSeq(s, start + 1, Len(s)))
        ELSE SplitFrom(s, sep, hit + 1, Append(acc, SubSeq(s, start + 1, hit)))

\* str.split(sep) for a one-character sep: always at least one piece
Split(s, sep) == SplitFrom(s, sep, 0, <<>>)

\* the characters str.strip() removes
Whitespace == {" ", "\t", "\n", "\r", "\f"}

RECURSIVE LStrip(_)
LStrip(s) == IF s # <<>> /\ Head(s) \in Whitespace THEN LStrip(Tail(s)) ELSE s

RECURSIVE RStrip(_)
RStrip(s) ==
    IF s # <<>> /\ s[Len(s)] \in Whitespace THEN RStrip(SubSeq(s, 1, Len(s) - 1)) ELSE s

\* str.strip()
Strip(s) == RStrip(LStrip(s))

RECURSIVE StripAll(_, _, _)
\* [x.strip() for x in parts]
StripAll(parts, i, acc) ==
    IF i > Len(parts) THEN acc ELSE StripAll(parts, i + 1, Append(acc, Strip(parts[i])))

RECURSIVE JoinFrom(_, _, _, _)
JoinFrom(sep, parts, i, acc) ==
    IF i > Len(parts) THEN acc
    ELSE JoinFrom(sep, parts, i + 1, acc \o sep \o parts[i])

\* sep.join(parts)
Join(sep, parts) ==
    IF parts = <<>> THEN <<>> ELSE JoinFrom(sep, parts, 2, parts[1])

\* s.startswith(p)
StartsWith(s, p) == MatchAt(s, p, 1)

\* s.endswith(p)
EndsWith(s, p) == Len(p) <= Len(s) /\ MatchAt(s, p, Len(s) - Len(p) + 1)

\* str.rfind(c) for a one-character c, 0-based, or -1
RFind(s, c) ==
    LET hits == {i \in 1..Len(s) : s[i] = c}
    IN  IF hits = {} THEN -1
        ELSE (CHOOSE i \in hits : \A j \in hits : j <= i) - 1

RECURSIVE SplitextScan(_, _, _)
SplitextScan(p, filenameIndex, dotIndex) ==
    IF filenameIndex >= dotIndex THEN p
    ELSE IF p[filenameIndex + 1] # "." THEN SliceTo(p, dotIndex)
    ELSE SplitextScan(p, filenameIndex + 1, dotIndex)

\* os.path.splitext(p)[0]: cut at the last dot of the last path component,
\* unless that component has only leading dots before it
SplitextRoot(p) ==
    LET sepIndex == RFind(p, "/")
        dotIndex == RFind(p, ".")
    IN  IF dotIndex > sepIndex THEN SplitextScan(p, sepIndex + 1, dotIndex) ELSE p

Digits == <<"0", "1", "2", "3", "4", "5", "6", "7", "8", "9">>

RECURSIVE FormatNat(_)
\* str(n) for a natural number
FormatNat(n) ==
    IF n < 10 THEN <<Digits[n + 1]>>
    ELSE FormatNat(n \div 10) \o <<Digits[(n % 10) + 1]>>

\* str(x) / f"{x}" for the float x = h/100: the shortest repr, which keeps
\* one fractional digit at least ("1.0", "0.8", "0.75")
FormatFloat(h) ==
    LET whole == h \div 100
        frac  == h % 100
    IN  FormatNat(whole) \o <<".">> \o
        (IF frac % 10 = 0 THEN <<Digits[(frac \div 10) + 1]>>
         ELSE <<Digits[(frac \div 10) + 1], Digits[(frac % 10) + 1]>>)

\* ------------------------------------------------------------------------
\* String constants of the source
\* ------------------------------------------------------------------------

\* the negative prompt of image_generator_comfyui.py, used by mistake
ComfyNegativePrompt ==
    <<"l", "o", "w", " ", "q", "u", "a", "l", "i", "t", "y", ",", " ", "b",
      "l", "u", "r", "r", "y", ",", " ", "e", "x", "t", "r", "a", " ", "p",
      "e", "o", "p", "l", "e", ",", " ", "c", "r", "o", "w", "d", ",", " ",
      "t", "e", "x", "t", ",", " ", "w", "a", "t", "e", "r", "m", "a", "r",
      "k", ",", " ", "s", "i", "g", "n", "a", "t", "u", "r", "e", ",", " ",
      "m", "u", "t", "a", "t", "e", "d", " ", "a", "n", "a", "t", "o", "m",
      "y", ",", " ", "b", "a", "d", " ", "h", "a", "n", "d", "s">>

\* 'low quality, blurry, extra people, watermark, text, deformed, bad anatomy, multiple faces, distorted perspective'
NEGATIVE_PROMPT ==
    <<"l", "o", "w", " ", "q", "u", "a", "l", "i", "t", "y", ",", " ", "b",
      "l", "u", "r", "r", "y", ",", " ", "e", "x", "t", "r", "a", " ", "p",
      "e", "o", "p", "l", "e", ",", " ", "w", "a", "t", "e", "r", "m", "a",
      "r", "k", ",", " ", "t", "e", "x", "t", ",", " ", "d", "e", "f", "o",
      "r", "m", "e", "d", ",", " ", "b", "a", "d", " ", "a", "n", "a", "t",
      "o", "m", "y", ",", " ", "m", "u", "l", "t", "i", "p", "l", "e", " ",
      "f", "a", "c", "e", "s", ",", " ", "d", "i", "s", "t", "o", "r", "t",
      "e", "d", " ", "p", "e", "r", "s", "p", "e", "c", "t", "i", "v", "e">>

\* 'standing confidently'
STANDING_CONFIDENTLY ==
    <<"s", "t", "a", "n", "d", "i", "n", "g", " ", "c", "o", "n", "f", "i",
      "d", "e", "n", "t", "l", "y">>

\* 'fantasy illustration, cinematic lighting, high detail'
ENV_FALLBACK ==
    <<"f", "a", "n", "t", "a", "s", "y", " ", "i", "l", "l", "u", "s", "t",
      "r", "a", "t", "i", "o", "n", ",", " ", "c", "i", "n", "e", "m", "a",
      "t", "i", "c", " ", "l", "i", "g", "h", "t", "i", "n", "g", ",", " ",
      "h", "i", "g", "h", " ", "d", "e", "t", "a", "i", "l">>

\* 'cinematic lighting, fantasy illustration, high detail'
STYLE_SUFFIX ==
    <<"c", "i", "n", "e", "m", "a", "t", "i", "c", " ", "l", "i", "g", "h",
      "t", "i", "n", "g", ",", " ", "f", "a", "n", "t", "a", "s", "y", " ",
      "i", "l", "l", "u", "s", "t", "r", "a", "t", "i", "o", "n", ",", " ",
      "h", "i", "g", "h", " ", "d", "e", "t", "a", "i", "l">>

\* '.safetensors'
SAFETENSORS ==
    <<".", "s", "a", "f", "e", "t", "e", "n", "s", "o", "r", "s">>

\* ' clothing'
CLOTHING ==
    <<" ", "c", "l", "o", "t", "h", "i", "n", "g">>

\* 'on the left'
ON_THE_LEFT ==
    <<"o", "n", " ", "t", "h", "e", " ", "l", "e", "f", "t">>

\* 'on the right'
ON_THE_RIGHT ==
    <<"o", "n", " ", "t", "h", "e", " ", "r", "i", "g", "h", "t">>

\* 'center'
CENTER ==
    <<"c", "e", "n", "t", "e", "r">>

\* 'foreground'
FOREGROUND ==
    <<"f", "o", "r", "e", "g", "r", "o", "u", "n", "d">>

\* 'background'
BACKGROUND ==
    <<"b", "a", "c", "k", "g", "r", "o", "u", "n", "d">>

\* 'in the center'
IN_THE_CENTER ==
    <<"i", "n", " ", "t", "h", "e", " ", "c", "e", "n", "t", "e", "r">>

\* 'in the foreground'
IN_THE_FOREGROUND ==
    <<"i", "n", " ", "t", "h", "e", " ", "f", "o", "r", "e", "g", "r", "o",
      "u", "n", "d">>

\* 'in the background'
IN_THE_BACKGROUND ==
    <<"i", "n", " ", "t", "h", "e", " ", "b", "a", "c", "k", "g", "r", "o",
      "u", "n", "d">>

\* '. She '
DOT_SHE ==
    <<".", " ", "S", "h", "e", " ">>

\* '. He '
DOT_HE ==
    <<".", " ", "H", "e", " ">>

\* '. Her '
DOT_HER ==
    <<".", " ", "H", "e", "r", " ">>

\* '. His '
DOT_HIS ==
    <<".", " ", "H", "i", "s", " ">>

\* '<lora:'
LORA_OPEN ==
    <<"<", "l", "o", "r", "a", ":">>

\* 'Tobias Dunsmir'
TobiasDunsmir ==
    <<"T", "o", "b", "i", "a", "s", " ", "D", "u", "n", "s", "m", "i", "r">>

\* 'Olive Elmmist'
OliveElmmist ==
    <<"O", "l", "i", "v", "e", " ", "E", "l", "m", "m", "i", "s", "t">>

\* the colour words scanned for, in list order
colors ==
    <<
      <<"b", "l", "a", "c", "k">>,
      <<"w", "h", "i", "t", "e">>,
      <<"r", "e", "d">>,
      <<"b", "l", "u", "e">>,
      <<"g", "r", "e", "e", "n">>,
      <<"y", "e", "l", "l", "o", "w">>,
      <<"p", "u", "r", "p", "l", "e">>,
      <<"b", "r", "o", "w", "n">>,
      <<"g", "r", "e", "y">>,
      <<"g", "r", "a", "y">>,
      <<"s", "i", "l", "v", "e", "r">>,
      <<"g", "o", "l", "d">>,
      <<"g", "o", "l", "d", "e", "n">>,
      <<"d", "a", "r", "k">>,
      <<"l", "i", "g", "h", "t">>,
      <<"d", "e", "e", "p">>,
      <<"b", "r", "i", "g", "h", "t">>
    >>

\* the setting words that keep a sentence in the environment
setting_keywords ==
    <<
      <<"f", "o", "r", "e", "s", "t">>,
      <<"c", "l", "e", "a", "r", "i", "n", "g">>,
      <<"v", "i", "l", "l", "a", "g", "e">>,
      <<"t", "e", "m", "p", "l", "e">>,
      <<"r", "u", "i", "n", "s">>,
      <<"c", "a", "v", "e">>,
      <<"l", "i", "g", "h", "t", "i", "n", "g">>,
      <<"s", "u", "n", "l", "i", "g", "h", "t">>,
      <<"s", "h", "a", "d", "o", "w", "s">>,
      <<"a", "t", "m", "o", "s", "p", "h", "e", "r", "e">>,
      <<"m", "o", "o", "d">>,
      <<"c", "i", "n", "e", "m", "a", "t", "i", "c">>,
      <<"i", "l", "l", "u", "s", "t", "r", "a", "t", "i", "o", "n">>,
      <<"f", "a", "n", "t", "a", "s", "y">>,
      <<"d", "r", "a", "m", "a", "t", "i", "c">>
    >>
\* ', '
COMMA_SPACE ==
    <<",", " ">>

\* '. '
DOT_SPACE ==
    <<".", " ">>

\* ''s '
APOSTROPHE_S ==
    <<"'", "s", " ">>

\* 'dark blue, silver'
PaletteTobias ==
    <<"d", "a", "r", "k", " ", "b", "l", "u", "e", ",", " ", "s", "i", "l",
      "v", "e", "r">>

\* 'rogue'
KeywordsTobias ==
    <<"r", "o", "g", "u", "e">>

\* 'green'
PaletteOlive ==
    <<"g", "r", "e", "e", "n">>

\* 'green and brown leather armor'
PaletteOliveArmor ==
    <<"g", "r", "e", "e", "n", " ", "a", "n", "d", " ", "b", "r", "o", "w",
      "n", " ", "l", "e", "a", "t", "h", "e", "r", " ", "a", "r", "m", "o",
      "r">>

\* 'golden shield'
KeywordsOlive ==
    <<"g", "o", "l", "d", "e", "n", " ", "s", "h", "i", "e", "l", "d">>

\* 'tobias_char'
TriggerTobias ==
    <<"t", "o", "b", "i", "a", "s", "_", "c", "h", "a", "r">>

\* 'tobias_v2.safetensors'
FileTobias ==
    <<"t", "o", "b", "i", "a", "s", "_", "v", "2", ".", "s", "a", "f", "e",
      "t", "e", "n", "s", "o", "r", "s">>

\* 'olive_char'
TriggerOlive ==
    <<"o", "l", "i", "v", "e", "_", "c", "h", "a", "r">>

\* 'olive.v1.safetensors'
FileOlive ==
    <<"o", "l", "i", "v", "e", ".", "v", "1", ".", "s", "a", "f", "e", "t",
      "e", "n", "s", "o", "r", "s">>

\* 'Olive Elmmist, on the right, kneels'
SentOliveRight ==
    <<"O", "l", "i", "v", "e", " ", "E", "l", "m", "m", "i", "s", "t", ",",
      " ", "o", "n", " ", "t", "h", "e", " ", "r", "i", "g", "h", "t", ",",
      " ", "k", "n", "e", "e", "l", "s">>

\* 'Tobias Dunsmir stands on the left, scowling'
SentTobiasLeft ==
    <<"T", "o", "b", "i", "a", "s", " ", "D", "u", "n", "s", "m", "i", "r",
      " ", "s", "t", "a", "n", "d", "s", " ", "o", "n", " ", "t", "h", "e",
      " ", "l", "e", "f", "t", ",", " ", "s", "c", "o", "w", "l", "i", "n",
      "g">>

\* 'She smiles'
SentShe ==
    <<"S", "h", "e", " ", "s", "m", "i", "l", "e", "s">>

\* 'The forest is dark'
SentForest ==
    <<"T", "h", "e", " ", "f", "o", "r", "e", "s", "t", " ", "i", "s", " ",
      "d", "a", "r", "k">>

\* 'A dragon sleeps'
SentDragon ==
    <<"A", " ", "d", "r", "a", "g", "o", "n", " ", "s", "l", "e", "e", "p",
      "s">>

\* 'Olive Elmmist waits'
SentOliveWaits ==
    <<"O", "l", "i", "v", "e", " ", "E", "l", "m", "m", "i", "s", "t", " ",
      "w", "a", "i", "t", "s">>

\* 'Tobias Dunsmir hides in the background'
SentTobiasBackground ==
    <<"T", "o", "b", "i", "a", "s", " ", "D", "u", "n", "s", "m", "i", "r",
      " ", "h", "i", "d", "e", "s", " ", "i", "n", " ", "t", "h", "e", " ",
      "b", "a", "c", "k", "g", "r", "o", "u", "n", "d">>

\* 'Olive Elmmist stands in the center'
SentOliveCenter ==
    <<"O", "l", "i", "v", "e", " ", "E", "l", "m", "m", "i", "s", "t", " ",
      "s", "t", "a", "n", "d", "s", " ", "i", "n", " ", "t", "h", "e", " ",
      "c", "e", "n", "t", "e", "r">>

\* 'Olive Elmmist laughs.'
TextOlive ==
    <<"O", "l", "i", "v", "e", " ", "E", "l", "m", "m", "i", "s", "t", " ",
      "l", "a", "u", "g", "h", "s", ".">>

\* ------------------------------------------------------------------------
\* StoryGenerator: registries and prompt composition
\* ------------------------------------------------------------------------

\* strengths are kept in hundredths: 80 is the float 0.8
DefaultStrength1 == 80

DefaultStrength2 == 75

\* characters of context after a position keyword that still count as "near"
PositionWindow == 20

\* a cleaned sentence must be longer than this to count as an action
MinActionLen == 5

\* number of action sentences kept
MaxActions == 2

\* dict.get(key, default)
Get(d, key, default) == IF key \in DOMAIN d THEN d[key] ELSE default

\* the dict {}
EmptyDict == <<>>

\* load_lora_config that forgets .lower() in the synthesized trigger words
load_lora_config_no_lower(file, chars) ==
    IF ~file.exists
    THEN LET char1_name == chars["character_1"]["fantasy_name"]
             char2_name == chars["character_2"]["fantasy_name"]
         IN  (char2_name :>
                [trigger_word |-> Replace(char2_name, <<" ">>, <<"_">>),
                 lora_filename |-> Replace(char2_name, <<" ">>, <<>>) \o SAFETENSORS,
                 default_strength |-> DefaultStrength2])
             @@
             (char1_name :>
                [trigger_word |-> Replace(char1_name, <<" ">>, <<"_">>),
                 lora_filename |-> Replace(char1_name, <<" ">>, <<>>) \o SAFETENSORS,
                 default_strength |-> DefaultStrength1])
    ELSE file.content

\* StoryGenerator.load_lora_config: file.exists is Path(file_path).exists()
\* and file.content the parsed JSON of an existing file
load_lora_config(file, chars) ==
    IF ~file.exists
    THEN LET char1_name == chars["character_1"]["fantasy_name"]
             char2_name == chars["character_2"]["fantasy_name"]
         IN  (char2_name :>
                [trigger_word |-> Replace(Lower(char2_name), <<" ">>, <<"_">>),
                 lora_filename |-> Replace(char2_name, <<" ">>, <<>>) \o SAFETENSORS,
                 default_strength |-> DefaultStrength2])
             @@
             (char1_name :>
                [trigger_word |-> Replace(Lower(char1_name), <<" ">>, <<"_">>),
                 lora_filename |-> Replace(char1_name, <<" ">>, <<>>) \o SAFETENSORS,
                 default_strength |-> DefaultStrength1])
    ELSE file.content

\* StoryGenerator._extract_outfit_colors
_extract_outfit_colors(outfit_description) ==
    LET outfit_lower == Lower(outfit_description)
        found_colors == SelectSeq(colors, LAMBDA color : Contains(color, outfit_lower))
    IN  IF found_colors # <<>>
        THEN Join(COMMA_SPACE, found_colors) \o CLOTHING
        ELSE <<>>

\* the body of the loop of _extract_character_action: the sentence as it
\* would be appended to actions
CleanedSentence(sentence, char_name) ==
    Strip(Replace(Strip(sentence), char_name, <<>>))

RECURSIVE CleanAll(_, _, _, _)
CleanAll(sentences, char_name, i, acc) ==
    IF i > Len(sentences) THEN acc
    ELSE CleanAll(sentences, char_name, i + 1,
                  Append(acc, CleanedSentence(sentences[i], char_name)))

\* StoryGenerator._extract_character_action
_extract_character_action(text, char_name_lower, char_name) ==
    LET sentences == Split(text, ".")
        mentioning == SelectSeq(sentences,
                        LAMBDA sentence : Contains(char_name_lower, Lower(sentence)))
        cleaned == CleanAll(mentioning, char_name, 1, <<>>)
        actions == SelectSeq(cleaned,
                        LAMBDA sentence : sentence # <<>> /\ Len(sentence) > MinActionLen)
    IN  IF actions # <<>>
        THEN Join(COMMA_SPACE, SliceTo(actions, MaxActions))
        ELSE STANDING_CONFIDENTLY

\* one condition of the if/elif chain of _extract_positioning:
\* keyword in scene_lower and char_lower in scene_lower[:find(keyword) + 20]
KeywordNearName(scene_lower, keyword, char_lower) ==
    /\ Contains(keyword, scene_lower)
    /\ Contains(char_lower,
                SliceTo(scene_lower, Find(scene_lower, keyword) + PositionWindow))

\* the if/elif chain with its branches in the opposite order
ExplicitPosition_reversed(scene_lower, char_lower) ==
    IF KeywordNearName(scene_lower, BACKGROUND, char_lower) THEN IN_THE_BACKGROUND
    ELSE IF KeywordNearName(scene_lower, FOREGROUND, char_lower) THEN IN_THE_FOREGROUND
    ELSE IF KeywordNearName(scene_lower, CENTER, char_lower) THEN IN_THE_CENTER
    ELSE IF KeywordNearName(scene_lower, ON_THE_RIGHT, char_lower) THEN ON_THE_RIGHT
    ELSE IF KeywordNearName(scene_lower, ON_THE_LEFT, char_lower) THEN ON_THE_LEFT
    ELSE <<>>

\* the if/elif chain of _extract_positioning for one character; <<>> when
\* no branch is taken and position_map keeps its ''
ExplicitPosition(scene_lower, char_lower) ==
    IF KeywordNearName(scene_lower, ON_THE_LEFT, char_lower) THEN ON_THE_LEFT
    ELSE IF KeywordNearName(scene_lower, ON_THE_RIGHT, char_lower) THEN ON_THE_RIGHT
    ELSE IF KeywordNearName(scene_lower, CENTER, char_lower) THEN IN_THE_CENTER
    ELSE IF KeywordNearName(scene_lower, FOREGROUND, char_lower) THEN IN_THE_FOREGROUND
    ELSE IF KeywordNearName(scene_lower, BACKGROUND, char_lower) THEN IN_THE_BACKGROUND
    ELSE <<>>

\* position_map with the two default positions exchanged
position_map_defaults_swapped(scene_desc, char1_name, char2_name) ==
    LET scene_lower == Lower(scene_desc)
        pm0 == (char2_name :> <<>>) @@ (char1_name :> <<>>)
        e1  == ExplicitPosition(scene_lower, Lower(char1_name))
        pm1 == IF e1 # <<>> THEN [pm0 EXCEPT ![char1_name] = e1] ELSE pm0
        e2  == ExplicitPosition(scene_lower, Lower(char2_name))
        pm2 == IF e2 # <<>> THEN [pm1 EXCEPT ![char2_name] = e2] ELSE pm1
        pm3 == IF pm2[char1_name] = <<>>
               THEN [pm2 EXCEPT ![char1_name] = ON_THE_LEFT] ELSE pm2
        pm4 == IF pm3[char2_name] = <<>>
               THEN [pm3 EXCEPT ![char2_name] = ON_THE_RIGHT] ELSE pm3
    IN  pm4

\* position_map of _extract_positioning when the function returns
position_map(scene_desc, char1_name, char2_name) ==
    LET scene_lower == Lower(scene_desc)
        pm0 == (char2_name :> <<>>) @@ (char1_name :> <<>>)
        e1  == ExplicitPosition(scene_lower, Lower(char1_name))
        pm1 == IF e1 # <<>> THEN [pm0 EXCEPT ![char1_name] = e1] ELSE pm0
        e2  == ExplicitPosition(scene_lower, Lower(char2_name))
        pm2 == IF e2 # <<>> THEN [pm1 EXCEPT ![char2_name] = e2] ELSE pm1
        pm3 == IF pm2[char1_name] = <<>>
               THEN [pm2 EXCEPT ![char1_name] = ON_THE_RIGHT] ELSE pm2
        pm4 == IF pm3[char2_name] = <<>>
               THEN [pm3 EXCEPT ![char2_name] = ON_THE_LEFT] ELSE pm3
    IN  pm4

\* _extract_positioning that returns before the default positions are
\* filled in
_extract_positioning_no_defaults(scene_desc, char1_name, char2_name) ==
    LET scene_lower == Lower(scene_desc)
    IN  char1_name \o <<" ">> \o ExplicitPosition(scene_lower, Lower(char1_name))
        \o COMMA_SPACE \o
        char2_name \o <<" ">> \o ExplicitPosition(scene_lower, Lower(char2_name))

\* StoryGenerator._extract_positioning
_extract_positioning(scene_desc, char1_name, char2_name) ==
    LET pm == position_map(scene_desc, char1_name, char2_name)
    IN  char1_name \o <<" ">> \o pm[char1_name] \o COMMA_SPACE \o
        char2_name \o <<" ">> \o pm[char2_name]

\* has_setting of _extract_environment
has_setting(sentence_lower) ==
    \E k \in 1..Len(setting_keywords) : Contains(setting_keywords[k], sentence_lower)

\* has_character of _extract_environment
has_character(sentence_lower, char1_name, char2_name) ==
    \/ Contains(Lower(char1_name), sentence_lower)
    \/ Contains(Lower(char2_name), sentence_lower)

\* _extract_environment that keeps only the sentences with a setting keyword
_extract_environment_setting_only(scene_desc, char1_name, char2_name) ==
    LET sentences == Split(scene_desc, ".")
        kept == SelectSeq(sentences, LAMBDA sentence : has_setting(Lower(sentence)))
        env_sentences == StripAll(kept, 1, <<>>)
    IN  IF env_sentences # <<>>
        THEN Join(DOT_SPACE, env_sentences)
        ELSE ENV_FALLBACK

\* StoryGenerator._extract_environment
_extract_environment(scene_desc, char1_name, char2_name) ==
    LET sentences == Split(scene_desc, ".")
        kept == SelectSeq(sentences,
                    LAMBDA sentence :
                        \/ has_setting(Lower(sentence))
                        \/ ~has_character(Lower(sentence), char1_name, char2_name))
        env_sentences == StripAll(kept, 1, <<>>)
    IN  IF env_sentences # <<>>
        THEN Join(DOT_SPACE, env_sentences)
        ELSE ENV_FALLBACK

\* StoryGenerator._parse_scene_description, as a record of the returned tuple
_parse_scene_description(scene_desc, page_text, char1_name, char2_name) ==
    LET combined == Lower(scene_desc) \o <<" ">> \o Lower(page_text)
    IN  [char1_action |-> _extract_character_action(combined, Lower(char1_name), char1_name),
         char2_action |-> _extract_character_action(combined, Lower(char2_name), char2_name),
         positioning |-> _extract_positioning(scene_desc, char1_name, char2_name),
         environment_desc |-> _extract_environment(scene_desc, char1_name, char2_name)]

\* the f-string "<lora:{lora_file}:{strength}>"
LoraTag(lora_file, strength) ==
    LORA_OPEN \o lora_file \o <<":">> \o FormatFloat(strength) \o <<">">>

\* _build_character_prompt that puts the trigger word before the adapter tag
_build_character_prompt_trigger_first(lora_file, strength, trigger_word, char_name, action, outfit_cue, prompt_keywords) ==
    LET p0 == <<trigger_word, LoraTag(lora_file, strength)>>
        p1 == IF action # <<>> /\ action # STANDING_CONFIDENTLY
              THEN Append(p0, action)
              ELSE Append(p0, STANDING_CONFIDENTLY)
        p2 == IF outfit_cue # <<>> THEN Append(p1, outfit_cue) ELSE p1
        p3 == IF prompt_keywords # <<>> THEN Append(p2, prompt_keywords) ELSE p2
    IN  Join(<<" ">>, p3)

\* StoryGenerator._build_character_prompt
_build_character_prompt(lora_file, strength, trigger_word, char_name, action, outfit_cue, prompt_keywords) ==
    LET p0 == <<LoraTag(lora_file, strength), trigger_word>>
        p1 == IF action # <<>> /\ action # STANDING_CONFIDENTLY
              THEN Append(p0, action)
              ELSE Append(p0, STANDING_CONFIDENTLY)
        p2 == IF outfit_cue # <<>> THEN Append(p1, outfit_cue) ELSE p1
        p3 == IF prompt_keywords # <<>> THEN Append(p2, prompt_keywords) ELSE p2
    IN  Join(<<" ">>, p3)

\* _build_scene_prompt that puts the positioning before the environment
_build_scene_prompt_position_first(environment_desc, positioning, char1_name, char2_name) ==
    LET p0 == IF positioning # <<>> THEN <<positioning>> ELSE <<>>
        p1 == IF environment_desc # <<>> THEN Append(p0, environment_desc) ELSE p0
        p2 == Append(p1, STYLE_SUFFIX)
    IN  Join(COMMA_SPACE, p2)

\* StoryGenerator._build_scene_prompt
_build_scene_prompt(environment_desc, positioning, char1_name, char2_name) ==
    LET p0 == IF environment_desc # <<>> THEN <<environment_desc>> ELSE <<>>
        p1 == IF positioning # <<>> THEN Append(p0, positioning) ELSE p0
        p2 == Append(p1, STYLE_SUFFIX)
    IN  Join(COMMA_SPACE, p2)

\* lines 163-168 of build_page_prompts: the scene description with the
\* sentence-initial pronouns replaced by the character names
scene_desc_of(page_data, char1_name, char2_name) ==
    LET s0 == Get(page_data, "scene_description", <<>>)
        s1 == Replace(s0, DOT_SHE, DOT_SPACE \o char2_name \o <<" ">>)
        s2 == Replace(s1, DOT_HE, DOT_SPACE \o char1_name \o <<" ">>)
        s3 == Replace(s2, DOT_HER, DOT_SPACE \o char2_name \o APOSTROPHE_S)
        s4 == Replace(s3, DOT_HIS, DOT_SPACE \o char1_name \o APOSTROPHE_S)
    IN  s4

\* build_page_prompts raises KeyError at lines 133-137 when a character
\* record or its fantasy_name is missing
build_raises(chars) ==
    \/ "character_1" \notin DOMAIN chars
    \/ "character_2" \notin DOMAIN chars
    \/ "fantasy_name" \notin DOMAIN chars["character_1"]
    \/ "fantasy_name" \notin DOMAIN chars["character_2"]

\* lines 163-175 of build_page_prompts: the tuple returned by the parser
parsed_of(chars, page_data) ==
    LET char1_name == chars["character_1"]["fantasy_name"]
        char2_name == chars["character_2"]["fantasy_name"]
    IN  _parse_scene_description(scene_desc_of(page_data, char1_name, char2_name),
                                 Get(page_data, "text", <<>>),
                                 char1_name, char2_name)

\* lines 133-160 and 177-201 of build_page_prompts: the returned dict, given
\* the tuple p of the parser
prompts_of(chars, registry, p) ==
    LET char1 == chars["character_1"]
        char2 == chars["character_2"]
        char1_name == char1["fantasy_name"]
        char2_name == char2["fantasy_name"]
        char1_lora == Get(registry, char1_name, EmptyDict)
        char2_lora == Get(registry, char2_name, EmptyDict)
        char1_trigger == Get(char1_lora, "trigger_word",
                             Replace(Lower(char1_name), <<" ">>, <<"_">>))
        char2_trigger == Get(char2_lora, "trigger_word",
                             Replace(Lower(char2_name), <<" ">>, <<"_">>))
        char1_lora_file == SplitextRoot(Get(char1_lora, "lora_filename",
                               Replace(char1_name, <<" ">>, <<>>) \o SAFETENSORS))
        char2_lora_file == SplitextRoot(Get(char2_lora, "lora_filename",
                               Replace(char2_name, <<" ">>, <<>>) \o SAFETENSORS))
        char1_strength == Get(char1_lora, "default_strength", DefaultStrength1)
        char2_strength == Get(char2_lora, "default_strength", DefaultStrength2)
        char1_visual == Get(char1, "visual_design", EmptyDict)
        char2_visual == Get(char2, "visual_design", EmptyDict)
        char1_outfit_cue == _extract_outfit_colors(Get(char1_visual, "prompt_palette", <<>>))
        char2_outfit_cue == _extract_outfit_colors(Get(char2_visual, "prompt_palette", <<>>))
        char1_prompt_keywords == _extract_outfit_colors(Get(char1_visual, "prompt_keywords", <<>>))
        char2_prompt_keywords == _extract_outfit_colors(Get(char2_visual, "prompt_keywords", <<>>))
    IN  [character_1_prompt |->
            _build_character_prompt(char1_lora_file, char1_strength, char1_trigger,
                char1_name, p.char1_action, char1_outfit_cue, char1_prompt_keywords),
         character_2_prompt |->
            _build_character_prompt(char2_lora_file, char2_strength, char2_trigger,
                char2_name, p.char2_action, char2_outfit_cue, char2_prompt_keywords),
         scene_prompt |->
            _build_scene_prompt(p.environment_desc, p.positioning, char1_name, char2_name),
         negative_prompt |-> NEGATIVE_PROMPT]

\* ------------------------------------------------------------------------
\* Inputs: registry files and page records
\* ------------------------------------------------------------------------

\* longest scene description, in sentences
MaxSentences == 2

\* longest scene description of the pages that are built repeatedly
MaxRepeatSentences == 1

\* number of build_page_prompts calls followed in one run
MaxCalls == 3

None == [none |-> TRUE]

\* characters.json with a visual_design for both characters
CharactersFull ==
    [character_1 |->
        [fantasy_name |-> TobiasDunsmir,
         visual_design |-> [prompt_palette |-> PaletteTobias,
                            prompt_keywords |-> KeywordsTobias]],
     character_2 |->
        [fantasy_name |-> OliveElmmist,
         visual_design |-> [prompt_palette |-> PaletteOlive,
                            prompt_keywords |-> KeywordsOlive]]]

\* characters.json without visual_design
CharactersPlain ==
    [character_1 |-> [fantasy_name |-> TobiasDunsmir],
     character_2 |-> [fantasy_name |-> OliveElmmist]]

\* characters.json whose second character has no fantasy_name
CharactersNoName ==
    [character_1 |-> [fantasy_name |-> TobiasDunsmir],
     character_2 |-> [name |-> OliveElmmist]]

\* characters.json whose second character wears armor
CharactersArmor ==
    [character_1 |-> [fantasy_name |-> TobiasDunsmir],
     character_2 |->
        [fantasy_name |-> OliveElmmist,
         visual_design |-> [prompt_palette |-> PaletteOliveArmor]]]

CharacterFiles ==
    {CharactersFull, CharactersPlain, CharactersNoName, CharactersArmor}

EntryTobias ==
    [trigger_word |-> TriggerTobias, lora_filename |-> FileTobias,
     default_strength |-> 90]

EntryOlive ==
    [trigger_word |-> TriggerOlive, lora_filename |-> FileOlive,
     default_strength |-> 100]

\* lora_config.json: absent, or present with both, one or no registration,
\* or with registrations that lack some keys
LoraFiles ==
    { [exists |-> FALSE],
      [exists |-> TRUE,
       content |-> (OliveElmmist :> EntryOlive) @@ (TobiasDunsmir :> EntryTobias)],
      [exists |-> TRUE, content |-> (TobiasDunsmir :> EntryTobias)],
      [exists |-> TRUE, content |-> EmptyDict],
      [exists |-> TRUE,
       content |-> (OliveElmmist :> [lora_filename |-> FileOlive])
                   @@ (TobiasDunsmir :> [trigger_word |-> TriggerTobias])] }

Sentences ==
    {SentOliveRight, SentTobiasLeft, SentShe, SentForest, SentDragon,
     SentOliveWaits, SentTobiasBackground, SentOliveCenter}

RepeatSentences == {SentOliveRight, SentShe}

RECURSIVE SceneFrom(_, _, _)
SceneFrom(ss, i, acc) ==
    IF i > Len(ss) THEN acc
    ELSE SceneFrom(ss, i + 1,
                   (IF acc = <<>> THEN acc ELSE Append(acc, " ")) \o ss[i] \o <<".">>)

\* the scene description made of the sentences ss, each closed by a full
\* stop; an unclosed description lacks the last full stop
SceneOf(ss, closed) ==
    LET s == SceneFrom(ss, 1, <<>>)
    IN  IF closed \/ s = <<>> THEN s ELSE SubSeq(s, 1, Len(s) - 1)

SentenceSeqs(pool, n) == UNION {[1..k -> pool] : k \in 0..n}

Texts == {<<>>, TextOlive}

\* 'Olive Elmmist. The forest is dark.': a sentence that is the name alone
SceneNameOnly == SceneOf(<<OliveElmmist, SentForest>>, TRUE)

\* page records: complete ones, one that lacks text and scene_description,
\* and one whose scene description has a sentence that is a name alone
Pages ==
    {[page |-> 1, text |-> t, scene_description |-> SceneOf(ss, closed)] :
        ss \in SentenceSeqs(Sentences, MaxSentences), t \in Texts,
        closed \in BOOLEAN}
    \cup {[page |-> 1]}
    \cup {[page |-> 1, text |-> <<>>, scene_description |-> SceneNameOnly]}

RepeatPages ==
    {[page |-> 1, text |-> <<>>, scene_description |-> SceneOf(ss, TRUE)] :
        ss \in SentenceSeqs(RepeatSentences, MaxRepeatSentences)}
    \cup {[page |-> 1]}

\* ------------------------------------------------------------------------
\* State
\* ------------------------------------------------------------------------

VARIABLES
    characters_file,    \* the characters file the object is built from
    characters,         \* self.characters
    lora_config_file,   \* the adapter-registration file the object was built from
    loras,              \* self.loras
    page_data,          \* argument of the last build_page_prompts call
    parsed,             \* the parser's tuple inside that call
    bundle,             \* the dict that call returned
    outcome,            \* "none", "returned" or "raised"
    first_call,         \* the first build_page_prompts call of the run
    calls,              \* number of build_page_prompts calls so far
    story_pages,        \* story_pages inside generate_story_gemini
    built,              \* what build_page_prompts returned, page by page
    gpc,                \* position inside generate_story_gemini / save_story
    saved,              \* the file save_story wrote
    reread,             \* the pages read back from that file
    threads,            \* the invocations of build_page_prompts under way
    gen_class,          \* class of the image generator object, or "none"
    story_file,         \* the pages of the persisted story file
    file_at_start,      \* what the story file held when the run began
    story_data,         \* story_data['pages'] inside generate_all_story_images
    images,             \* the list images of that call
    pc,                 \* position inside generate_all_story_images
    idx,                \* 1-based index of the page the for loop is at
    result,             \* the list the call returned
    failed,             \* indexes of the pages whose generation raised
    attempted,          \* indexes of the pages whose generation was called
    requests,           \* remote requests issued so far
    page_number,        \* argument of regenerate_single_page
    workflow_template,  \* self.workflow_template of the ComfyUI generator
    workflow,           \* the workflow prepare_workflow returned
    cpc,                \* position inside generate_story_image
    comfy_page,         \* number of the page generate_story_image is given
    steps,              \* remote steps of that call so far, in order
    elapsed,            \* time.time() - start_time inside wait_for_completion
    prompt_id,          \* the id queue_prompt's response carried
    response,           \* what the last poll of the history got
    history,            \* what wait_for_completion returned
    comfy_result,       \* what generate_story_image returned
    trained_loras,      \* self.trained_loras of the LoRATrainer
    completed,          \* the latest training that completed, per character
    tpc,                \* position inside the trainer script
    trainer_log,        \* remote requests and file writes of the trainer
    config_file         \* lora_config.json as save_lora_config wrote it

vars == <<characters_file, characters, lora_config_file, loras, page_data,
          parsed, bundle, outcome, first_call, calls, story_pages, built, gpc,
          saved, reread, threads, gen_class, story_file, file_at_start,
          story_data, images, pc, idx, result, failed, attempted, requests,
          page_number, workflow_template, workflow, cpc, comfy_page, steps,
          elapsed, prompt_id, response, history, comfy_result, trained_loras,
          completed, tpc, trainer_log, config_file>>

gemini_vars == <<story_pages, built, gpc, saved, reread>>

\* the variables of the ComfyUI page pipeline
comfy_vars == <<workflow_template, workflow, cpc, comfy_page, steps, elapsed,
                prompt_id, response, history, comfy_result>>

\* the variables of the LoRATrainer and its script
trainer_vars == <<trained_loras, completed, tpc, trainer_log, config_file>>

\* what the image generators of the fal.ai pipeline leave alone
story_vars == <<page_data, parsed, bundle, outcome, first_call, calls,
                story_pages, built, gpc, saved, reread, threads, page_number,
                comfy_vars, trainer_vars>>

\* what the StoryGenerator leaves alone
image_vars == <<gen_class, story_file, file_at_start, story_data, images, pc,
                idx, result, failed, attempted, requests, page_number,
                comfy_vars, trainer_vars>>

\* no image generator is running
NoImageRun ==
    /\ gen_class = "none"
    /\ story_file = <<>>
    /\ file_at_start = <<>>
    /\ story_data = None
    /\ images = <<>>
    /\ pc = "idle"
    /\ idx = 0
    /\ result = None
    /\ failed = {}
    /\ attempted = {}
    /\ requests = 0

\* JSON null / Python None as an image path
NullPath == "null"

\* no prompt id is bound yet
NoPromptId == "none"

\* no ComfyUI pipeline is running
NoComfyRun ==
    /\ workflow_template = None
    /\ workflow = None
    /\ cpc = "idle"
    /\ comfy_page = 0
    /\ steps = <<>>
    /\ elapsed = 0
    /\ prompt_id = NoPromptId
    /\ response = None
    /\ history = None
    /\ comfy_result = NullPath

\* no LoRATrainer exists
NoTrainerRun ==
    /\ trained_loras = None
    /\ completed = <<>>
    /\ tpc = "idle"
    /\ trainer_log = <<>>
    /\ config_file = [exists |-> FALSE]

\* generate_story_gemini has not been called
NoStoryRun ==
    /\ story_pages = None
    /\ built = <<>>
    /\ gpc = "idle"
    /\ saved = None
    /\ reread = None

\* StoryGenerator.__init__ returned: both registries are loaded
Constructed ==
    /\ characters \in CharacterFiles
    /\ characters_file = [exists |-> TRUE, content |-> characters]
    /\ NoStoryRun
    /\ lora_config_file \in LoraFiles
    /\ lora_config_file.exists \/ ~build_raises(characters)
    /\ loras = load_lora_config(lora_config_file, characters)
    /\ parsed = None
    /\ bundle = None
    /\ outcome = "none"
    /\ first_call = None
    /\ calls = 0
    /\ NoImageRun
    /\ page_number = 0
    /\ NoComfyRun
    /\ NoTrainerRun

\* a generator and the page record it is about to be given
Init ==
    /\ Constructed
    /\ threads = <<>>
    /\ page_data \in Pages

\* build_page_prompts that takes the first character's registration out of
\* self.loras (dict.pop instead of dict.get)
build_page_prompts_pop(page) ==
    /\ IF build_raises(characters)
       THEN /\ outcome' = "raised"
            /\ parsed' = None
            /\ bundle' = None
            /\ loras' = loras
       ELSE /\ outcome' = "returned"
            /\ parsed' = parsed_of(characters, page)
            /\ bundle' = prompts_of(characters, loras, parsed')
            /\ loras' = [n \in DOMAIN loras \ {characters["character_1"]["fantasy_name"]}
                            |-> loras[n]]
    /\ UNCHANGED <<characters_file, characters, lora_config_file>>
    /\ UNCHANGED image_vars

\* StoryGenerator.build_page_prompts(page)
build_page_prompts(page) ==
    /\ IF build_raises(characters)
       THEN /\ outcome' = "raised"
            /\ parsed' = None
            /\ bundle' = None
       ELSE /\ outcome' = "returned"
            /\ parsed' = parsed_of(characters, page)
            /\ bundle' = prompts_of(characters, loras, parsed')
    /\ UNCHANGED <<characters_file, characters, lora_config_file, loras>>
    /\ UNCHANGED image_vars

\* the page drawn at the start is built
BuildPage ==
    /\ outcome = "none"
    /\ build_page_prompts(page_data)
    /\ UNCHANGED <<page_data, first_call, calls, threads>>
    /\ UNCHANGED gemini_vars

Next == BuildPage

Spec == Init /\ [][Next]_vars

\* a generator that has built no page yet
InitRepeat ==
    /\ Constructed
    /\ threads = <<>>
    /\ page_data = None

\* one more page is built by the same generator; the first call is remembered
BuildRepeatPage ==
    /\ calls < MaxCalls
    /\ \E page \in RepeatPages :
        /\ build_page_prompts(page)
        /\ page_data' = page
        /\ calls' = calls + 1
        /\ first_call' = IF first_call = None
                         THEN [page_data |-> page, outcome |-> outcome', bundle |-> bundle']
                         ELSE first_call
    /\ UNCHANGED threads
    /\ UNCHANGED gemini_vars

NextRepeat == BuildRepeatPage

SpecRepeat == InitRepeat /\ [][NextRepeat]_vars

\* ------------------------------------------------------------------------
\* StoryGenerator: generate_story_gemini and save_story
\* ------------------------------------------------------------------------

\* most pages in a model response
MaxStoryPages == 2

\* characters that json.dumps writes as a two-character escape
JsonEscapes ==
    [c \in {"\"", "\\", "\n", "\r", "\t", "\f"} |->
        CASE c = "\"" -> "\"" [] c = "\\" -> "\\" [] c = "\n" -> "n"
          [] c = "\r" -> "r" [] c = "\t" -> "t" [] c = "\f" -> "f"]

\* non-ASCII characters, each a one-element token named by its code point,
\* and the four hex digits json.dumps (ensure_ascii=True) writes for them
UnicodeEscapes ==
    [c \in {"U+00E9"} |-> <<"0", "0", "e", "9">>]

\* json.encoder: the replacement of one character
EscapeChar(c) ==
    IF c \in DOMAIN JsonEscapes THEN <<"\\", JsonEscapes[c]>>
    ELSE IF c \in DOMAIN UnicodeEscapes THEN <<"\\", "u">> \o UnicodeEscapes[c]
    ELSE <<c>>

RECURSIVE EncodeFrom(_, _, _)
\* acc holds the encoding of s[:start]; one step per escaped character
EncodeFrom(s, start, acc) ==
    LET special == {i \in (start + 1)..Len(s) :
                        s[i] \in DOMAIN JsonEscapes \cup DOMAIN UnicodeEscapes}
    IN  IF special = {} THEN acc \o SubSeq(s, start + 1, Len(s))
        ELSE LET i == CHOOSE i \in special : \A j \in special : i <= j
             IN  EncodeFrom(s, i, acc \o SubSeq(s, start + 1, i - 1) \o EscapeChar(s[i]))

\* json.dumps(s) for a str: py_encode_basestring_ascii
JsonDumpsStr(s) == <<"\"">> \o EncodeFrom(s, 0, <<>>) \o <<"\"">>

\* json.decoder: the character an escape letter stands for
UnescapeChar(e) ==
    CASE e = "\"" -> "\"" [] e = "\\" -> "\\" [] e = "/" -> "/" [] e = "n" -> "\n"
      [] e = "r" -> "\r" [] e = "t" -> "\t" [] e = "f" -> "\f"

\* the character of a \uXXXX escape
UnicodeChar(hex) == CHOOSE c \in DOMAIN UnicodeEscapes : UnicodeEscapes[c] = hex

RECURSIVE ScanString(_, _, _)
\* json.decoder.py_scanstring: text[start] is the first character after the
\* opening quote (0-based); the string ends at the first quote that is not
\* part of an escape
ScanString(text, start, acc) ==
    LET quote == FindAt(text, <<"\"">>, start)
        slash == FindAt(text, <<"\\">>, start)
    IN  IF slash = -1 \/ quote < slash
        THEN acc \o SubSeq(text, start + 1, quote)
        ELSE IF text[slash + 2] = "u"
        THEN ScanString(text, slash + 6,
                        acc \o SubSeq(text, start + 1, slash)
                            \o <<UnicodeChar(SubSeq(text, slash + 3, slash + 6))>>)
        ELSE ScanString(text, slash + 2,
                        acc \o SubSeq(text, start + 1, slash)
                            \o <<UnescapeChar(text[slash + 2])>>)

RECURSIVE ParseNat(_, _, _)
\* int(digits), one digit at a time
ParseNat(text, i, acc) ==
    IF i > Len(text) THEN acc
    ELSE ParseNat(text, i + 1,
                  10 * acc + ((CHOOSE d \in 1..10 : Digits[d] = text[i]) - 1))

\* json.dumps of one value of a page: the page number is an int, every
\* other field a str
JsonDumpsValue(key, value) ==
    IF key = "page" THEN FormatNat(value) ELSE JsonDumpsStr(value)

\* json.loads of one value of a page
JsonLoadsValue(text) ==
    IF Head(text) = "\"" THEN ScanString(text, 1, <<>>) ELSE ParseNat(text, 1, 0)

\* json.dump of the list of pages: every value as its JSON text
JsonDumpPages(pages) ==
    [i \in 1..Len(pages) |->
        [k \in DOMAIN pages[i] |-> JsonDumpsValue(k, pages[i][k])]]

\* json.load of the list of pages
JsonLoadPages(doc) ==
    [i \in 1..Len(doc) |-> [k \in DOMAIN doc[i] |-> JsonLoadsValue(doc[i][k])]]

\* a dict.update that keeps the values of the keys the page already has
page_update_keep(page, prompts) ==
    [k \in DOMAIN page \cup DOMAIN prompts |->
        IF k \in DOMAIN page THEN page[k] ELSE prompts[k]]

\* page.update(prompts)
page_update(page, prompts) ==
    [k \in DOMAIN page \cup DOMAIN prompts |->
        IF k \in DOMAIN prompts THEN prompts[k] ELSE page[k]]

\* 'Olive Elmmist says "go". Tobias Dunsmir reads C:\maps on the left.'
GemSceneQuote ==
    <<"O", "l", "i", "v", "e", " ", "E", "l", "m", "m", "i", "s", "t", " ",
      "s", "a", "y", "s", " ", "\"", "g", "o", "\"", ".", " ", "T", "o",
      "b", "i", "a", "s", " ", "D", "u", "n", "s", "m", "i", "r", " ", "r",
      "e", "a", "d", "s", " ", "C", ":", "\\", "m", "a", "p", "s", " ",
      "o", "n", " ", "t", "h", "e", " ", "l", "e", "f", "t", ".">>

\* 'Night falls.' + newline + 'Olive Elmmist waits.'
GemTextLines ==
    <<"N", "i", "g", "h", "t", " ", "f", "a", "l", "l", "s", ".", "\n",
      "O", "l", "i", "v", "e", " ", "E", "l", "m", "m", "i", "s", "t", " ",
      "w", "a", "i", "t", "s", ".">>

\* 'A caf' + U+00E9 + ' in the ruins.'
GemSceneCafe ==
    <<"A", " ", "c", "a", "f", "U+00E9", " ", "i", "n", " ", "t", "h", "e",
      " ", "r", "u", "i", "n", "s", ".">>

\* pages a model response may hold: with quotes, a backslash and a newline;
\* with a non-ASCII character; without text and scene_description; with a
\* two-digit number and a prompt field already present
GeminiPages ==
    { [page |-> 1, text |-> GemTextLines, scene_description |-> GemSceneQuote],
      [page |-> 2, text |-> <<>>, scene_description |-> GemSceneCafe],
      [page |-> 3],
      [page |-> 12, text |-> TextOlive,
       scene_description |-> SceneOf(<<SentOliveRight>>, TRUE),
       negative_prompt |-> <<"x">>] }

\* json.loads(text) of the model response: a list of pages
GeminiResponses == UNION {[1..n -> GeminiPages] : n \in 0..MaxStoryPages}

\* datetime.now().strftime('%Y%m%d_%H%M%S')
Timestamps == {"20251019_184004", "20251101_090000"}

\* a StoryGenerator on which generate_story_gemini is about to be called
InitGemini ==
    /\ Constructed
    /\ threads = <<>>
    /\ page_data = None

\* requests.post(...) of generate_story_gemini returns: a status other than
\* 200 raises, else the response text is parsed into story_pages
PostStory(ok, pages) ==
    /\ gpc = "idle"
    /\ IF ok
       THEN /\ story_pages' = pages
            /\ gpc' = "loop"
       ELSE /\ story_pages' = story_pages
            /\ gpc' = "raised"
    /\ UNCHANGED <<built, saved, reread, threads>>
    /\ UNCHANGED <<characters_file, characters, lora_config_file, loras,
                   page_data, parsed, bundle, outcome, first_call, calls>>
    /\ UNCHANGED image_vars

\* one iteration of `for page in story_pages`: build_page_prompts(page),
\* then page.update(prompts); an exception of build_page_prompts ends the call
BuildStoryPage ==
    /\ gpc = "loop"
    /\ Len(built) < Len(story_pages)
    /\ LET i == Len(built) + 1
       IN  /\ build_page_prompts(story_pages[i])
           /\ page_data' = story_pages[i]
           /\ IF outcome' = "raised"
              THEN /\ gpc' = "raised"
                   /\ UNCHANGED <<story_pages, built>>
              ELSE /\ gpc' = "loop"
                   /\ built' = Append(built, [page_data |-> story_pages[i],
                                              bundle |-> bundle'])
                   /\ story_pages' =
                        [story_pages EXCEPT ![i] = page_update(@, bundle')]
    /\ UNCHANGED <<saved, reread, threads, first_call, calls>>

\* return story_pages
ReturnStory ==
    /\ gpc = "loop"
    /\ Len(built) = Len(story_pages)
    /\ gpc' = "returned"
    /\ UNCHANGED <<story_pages, built, saved, reread, threads>>
    /\ UNCHANGED <<characters_file, characters, lora_config_file, loras,
                   page_data, parsed, bundle, outcome, first_call, calls>>
    /\ UNCHANGED image_vars

\* save_story(story): the story is dumped to a new file
save_story(timestamp) ==
    /\ gpc = "returned"
    /\ saved' = [generated_at |-> timestamp,
                 characters |-> characters,
                 pages |-> JsonDumpPages(story_pages)]
    /\ gpc' = "saved"
    /\ UNCHANGED <<story_pages, built, reread, threads>>
    /\ UNCHANGED <<characters_file, characters, lora_config_file, loras,
                   page_data, parsed, bundle, outcome, first_call, calls>>
    /\ UNCHANGED image_vars

\* the next stage reads the file: json.load(f)['pages']
LoadStory ==
    /\ gpc = "saved"
    /\ reread' = JsonLoadPages(saved.pages)
    /\ gpc' = "reread"
    /\ UNCHANGED <<story_pages, built, saved, threads>>
    /\ UNCHANGED <<characters_file, characters, lora_config_file, loras,
                   page_data, parsed, bundle, outcome, first_call, calls>>
    /\ UNCHANGED image_vars

NextGemini ==
    \/ \E ok \in BOOLEAN, pages \in GeminiResponses : PostStory(ok, pages)
    \/ BuildStoryPage
    \/ ReturnStory
    \/ \E timestamp \in Timestamps : save_story(timestamp)
    \/ LoadStory

SpecGemini == InitGemini /\ [][NextGemini]_vars

\* ------------------------------------------------------------------------
\* build_page_prompts invoked from several threads
\* ------------------------------------------------------------------------

\* number of invocations that may overlap
MaxThreads == 2

\* the pages the overlapping invocations are given
ThreadPages ==
    { [page |-> 1, text |-> TextOlive,
       scene_description |-> SceneOf(<<SentOliveRight, SentTobiasLeft>>, TRUE)],
      [page |-> 2, text |-> <<>>,
       scene_description |-> SceneOf(<<SentForest, SentShe>>, TRUE)],
      [page |-> 3] }

\* an invocation that has not started: its argument and its local variables
NewThread(page) ==
    [pc |-> "called", page_data |-> page, given |-> page,
     read_characters |-> None, read_loras |-> None,
     parsed |-> None, bundle |-> None, overlapped |-> FALSE]

\* another invocation is between its first and its last statement
OthersRunning(t) ==
    \E u \in DOMAIN threads \ {t} : threads[u].pc \in {"registry", "parsed"}

\* a StoryGenerator shared by MaxThreads invocations, one page each
InitThreads ==
    /\ Constructed
    /\ page_data = None
    /\ threads \in [1..MaxThreads -> {NewThread(page) : page \in ThreadPages}]

\* lines 133-160 of build_page_prompts, which look the characters and their
\* registrations up, with a dict.pop of the first registration in place of
\* the dict.get
ReadRegistry_pop(t) ==
    /\ threads[t].pc = "called"
    /\ IF build_raises(characters)
       THEN /\ threads' = [threads EXCEPT ![t].pc = "raised",
                                          ![t].overlapped = @ \/ OthersRunning(t)]
            /\ loras' = loras
       ELSE /\ threads' = [threads EXCEPT ![t].pc = "registry",
                                          ![t].read_characters = characters,
                                          ![t].read_loras = loras,
                                          ![t].overlapped = @ \/ OthersRunning(t)]
            /\ loras' = [n \in DOMAIN loras \ {characters["character_1"]["fantasy_name"]}
                            |-> loras[n]]
    /\ UNCHANGED <<characters_file, characters, lora_config_file>>
    /\ UNCHANGED <<page_data, parsed, bundle, outcome, first_call, calls>>
    /\ UNCHANGED gemini_vars
    /\ UNCHANGED image_vars

\* lines 133-160 of build_page_prompts in thread t: self.characters and
\* self.loras are read into local variables (KeyError when a character
\* record has no fantasy_name)
ReadRegistry(t) ==
    /\ threads[t].pc = "called"
    /\ IF build_raises(characters)
       THEN /\ threads' = [threads EXCEPT ![t].pc = "raised",
                                          ![t].overlapped = @ \/ OthersRunning(t)]
            /\ loras' = loras
       ELSE /\ threads' = [threads EXCEPT ![t].pc = "registry",
                                          ![t].read_characters = characters,
                                          ![t].read_loras = loras,
                                          ![t].overlapped = @ \/ OthersRunning(t)]
            /\ loras' = loras
    /\ UNCHANGED <<characters_file, characters, lora_config_file>>
    /\ UNCHANGED <<page_data, parsed, bundle, outcome, first_call, calls>>
    /\ UNCHANGED gemini_vars
    /\ UNCHANGED image_vars

\* lines 162-175 in thread t: the page record is read and parsed
ParseScene(t) ==
    /\ threads[t].pc = "registry"
    /\ threads' = [threads EXCEPT
                     ![t].pc = "parsed",
                     ![t].parsed = parsed_of(threads[t].read_characters,
                                             threads[t].page_data),
                     ![t].overlapped = @ \/ OthersRunning(t)]
    /\ UNCHANGED <<characters_file, characters, lora_config_file, loras>>
    /\ UNCHANGED <<page_data, parsed, bundle, outcome, first_call, calls>>
    /\ UNCHANGED gemini_vars
    /\ UNCHANGED image_vars

\* lines 177-201 in thread t: the prompts are built from the local
\* variables and the dict is returned
AssemblePrompts(t) ==
    /\ threads[t].pc = "parsed"
    /\ threads' = [threads EXCEPT
                     ![t].pc = "returned",
                     ![t].bundle = prompts_of(threads[t].read_characters,
                                              threads[t].read_loras,
                                              threads[t].parsed),
                     ![t].overlapped = @ \/ OthersRunning(t)]
    /\ UNCHANGED <<characters_file, characters, lora_config_file, loras>>
    /\ UNCHANGED <<page_data, parsed, bundle, outcome, first_call, calls>>
    /\ UNCHANGED gemini_vars
    /\ UNCHANGED image_vars

NextThreads ==
    \/ \E t \in DOMAIN threads : ReadRegistry(t)
    \/ \E t \in DOMAIN threads : ParseScene(t)
    \/ \E t \in DOMAIN threads : AssemblePrompts(t)

SpecThreads == InitThreads /\ [][NextThreads]_vars

\* ------------------------------------------------------------------------
\* LoRAImageGenerator and DualLoRAImageGenerator: generate_all_story_images
\* ------------------------------------------------------------------------

\* most pages in a story file
MaxPages == 2

\* an image path left by an earlier run
OldPath == "images/old/page.png"

\* f"{output_dir}/page_{page_num:02d}.png" with output_dir images/{story_id}
output_path(page_num) ==
    "images/story/page_" \o (IF page_num < 10 THEN "0" ELSE "") \o
    ToString(page_num) \o ".png"

\* a registration as lora_trainer.py saves it
FalEntry(name) == [trigger_word |-> name, lora_url |-> "https://fal/lora"]

\* lora_config.json as the image generators may find it: both characters
\* trained, one only, none, or registrations without a lora_url
ImageLoraFiles ==
    { [exists |-> FALSE],
      [exists |-> TRUE,
       content |-> (OliveElmmist :> FalEntry(TriggerOlive))
                   @@ (TobiasDunsmir :> FalEntry(TriggerTobias))],
      [exists |-> TRUE, content |-> (TobiasDunsmir :> FalEntry(TriggerTobias))],
      [exists |-> TRUE, content |-> EmptyDict],
      [exists |-> TRUE,
       content |-> (OliveElmmist :> EntryOlive) @@ (TobiasDunsmir :> EntryTobias)] }

\* LoRAImageGenerator.load_lora_config: None when the file is missing
lora_load_lora_config(file) == IF ~file.exists THEN None ELSE file.content

\* the image_path a page of the file may carry before the run: none, null,
\* or the path of an earlier image
PriorPaths == {"absent", NullPath, OldPath}

StoryPage(n, prior) ==
    IF prior = "absent"
    THEN [page |-> n, text |-> "text", scene_description |-> "scene"]
    ELSE [page |-> n, text |-> "text", scene_description |-> "scene",
          image_path |-> prior]

\* story files of 0..MaxPages pages, numbered from 1
Stories ==
    UNION { { [i \in 1..n |-> StoryPage(i, priors[i])] : priors \in [1..n -> PriorPaths] } :
            n \in 0..MaxPages }

\* the story file between open(story_file, 'w') and the end of json.dump:
\* not a complete JSON document
Truncated == <<[truncated |-> TRUE]>>

\* Python truthiness of a dict-or-None value: `not v`
Falsy(v) == v = None \/ v = EmptyDict

\* dict.get(key) with the default None
GetOrNone(d, key) == IF key \in DOMAIN d THEN d[key] ELSE None

\* characters.json as an image generator may find it
ImageCharacterFiles ==
    { [exists |-> FALSE],
      [exists |-> TRUE, content |-> CharactersPlain],
      [exists |-> TRUE, content |-> CharactersNoName] }

\* the methods each generator class defines.  In image_generator_comfyui.py
\* the class body ends with create_workflow_template (line 161):
\* build_character_prompts is a module-level function (line 163), and
\* prepare_workflow ... generate_all_story_images are functions nested in it
\* after its return statement.
ClassMethods(class) ==
    CASE class = "LoRAImageGenerator" ->
            {"__init__", "load_characters", "load_lora_config",
             "build_detailed_prompt", "generate_story_image_with_loras",
             "regenerate_single_page", "generate_all_story_images"}
      [] class = "DualLoRAImageGenerator" ->
            {"__init__", "load_characters", "load_lora_config",
             "generate_single_character_base", "create_simple_composite",
             "generate_story_image_separate_method", "generate_all_story_images"}
      [] class = "SplitSceneImageGenerator" ->
            {"__init__", "load_characters", "load_lora_config",
             "split_scene_description", "generate_single_character_image",
             "create_side_by_side_composite", "resize_to_height",
             "generate_story_image_split_method", "generate_all_story_images"}
      [] class = "ComfyUIImageGenerator" ->
            {"__init__", "load_characters", "load_lora_config",
             "create_workflow_template"}

\* the image generator classes of the repository
ImageGenerators ==
    {"LoRAImageGenerator", "DualLoRAImageGenerator", "SplitSceneImageGenerator",
     "ComfyUIImageGenerator"}

\* the classes whose load_lora_config opens the file without looking
\* whether it exists
OpensUnconditionally == {"DualLoRAImageGenerator", "SplitSceneImageGenerator"}

\* An image generator is about to be constructed from the two registry
\* files, and a story file is on disk.
InitImages ==
    /\ gen_class \in ImageGenerators
    /\ characters_file \in ImageCharacterFiles
    /\ characters = None
    /\ lora_config_file \in ImageLoraFiles
    /\ loras = None
    /\ NoStoryRun
    /\ threads = <<>>
    /\ story_file \in Stories
    /\ file_at_start = story_file
    /\ story_data = None
    /\ images = <<>>
    /\ pc = "new"
    /\ idx = 0
    /\ result = None
    /\ failed = {}
    /\ attempted = {}
    /\ requests = 0
    /\ page_number = 0
    /\ NoComfyRun
    /\ NoTrainerRun
    /\ page_data = None
    /\ parsed = None
    /\ bundle = None
    /\ outcome = "none"
    /\ first_call = None
    /\ calls = 0

\* the print loop of load_lora_config (LoRA and ComfyUI generators) reads
\* lora_info['trigger_word'] of every registration
load_raises(class, file) ==
    IF ~file.exists THEN class \in OpensUnconditionally
    ELSE /\ class \notin OpensUnconditionally
         /\ \E n \in DOMAIN file.content : "trigger_word" \notin DOMAIN file.content[n]

\* __init__ of an image generator: load_characters opens the characters
\* file, then load_lora_config loads the adapter registry; an exception of
\* either leaves no generator object
Construct ==
    /\ pc = "new"
    /\ IF ~characters_file.exists
       THEN /\ pc' = "init_raised"
            /\ UNCHANGED <<characters, loras>>
       ELSE /\ characters' = characters_file.content
            /\ IF load_raises(gen_class, lora_config_file)
               THEN /\ pc' = "init_raised"
                    /\ loras' = loras
               ELSE /\ pc' = "idle"
                    /\ loras' = lora_load_lora_config(lora_config_file)
    /\ UNCHANGED <<gen_class, file_at_start, characters_file, lora_config_file,
                   story_file, story_data, images, idx,
                   result, failed, attempted, requests>>
    /\ UNCHANGED story_vars

\* generate_all_story_images without the `if not self.loras: return []` of
\* lines 182-185
StartRun_without_guard ==
    /\ pc = "idle"
    /\ IF "generate_all_story_images" \notin ClassMethods(gen_class)
       THEN /\ pc' = "attribute_error"
            /\ UNCHANGED <<story_data, images, result, idx>>
       ELSE /\ story_data' = story_file
            /\ images' = <<>>
            /\ result' = result
            /\ pc' = "loop"
            /\ idx' = 1
    /\ UNCHANGED <<gen_class, file_at_start, characters_file, characters, lora_config_file, loras, story_file,
                   failed,
                   attempted, requests>>
    /\ UNCHANGED story_vars

\* generator.generate_all_story_images(...) up to the for loop: the
\* attribute is looked up (AttributeError when the class has no such
\* method), the file is read, and the LoRA generator returns [] at once when
\* `not self.loras`
StartRun ==
    /\ pc = "idle"
    /\ IF "generate_all_story_images" \notin ClassMethods(gen_class)
       THEN /\ pc' = "attribute_error"
            /\ UNCHANGED <<story_data, images, result, idx>>
       ELSE /\ story_data' = story_file
            /\ images' = <<>>
            /\ IF gen_class = "LoRAImageGenerator" /\ Falsy(loras)
               THEN /\ result' = <<>>
                    /\ pc' = "done"
                    /\ idx' = idx
               ELSE /\ result' = result
                    /\ pc' = "loop"
                    /\ idx' = 1
    /\ UNCHANGED <<gen_class, file_at_start, characters_file, characters, lora_config_file, loras, story_file,
                   failed,
                   attempted, requests>>
    /\ UNCHANGED story_vars

\* generate_single_character_base (Dual generator, lines 29-46) and
\* generate_single_character_image (Split generator, lines 116-141) up to
\* the request: what makes them raise for one character
raises_before_character_request(character_key) ==
    LET char_lora == GetOrNone(loras, characters[character_key]["fantasy_name"])
    IN  \/ Falsy(char_lora)
        \/ "trigger_word" \notin DOMAIN char_lora
        \/ "lora_url" \notin DOMAIN char_lora

\* the page keys generate_story_image_split_method reads first (lines
\* 207-209)
SplitPageKeys == {"scene_description", "text", "page"}

\* a generation method that looks for the registrations only after it has
\* sent its first request
raises_before_request_unchecked ==
    IF gen_class = "SplitSceneImageGenerator"
    THEN \E key \in SplitPageKeys : key \notin DOMAIN story_data[idx]
    ELSE build_raises(characters)

\* the checks of generate_story_image_with_loras (lines 57-77 and the
\* arguments of lines 97-109), of generate_story_image_separate_method
\* (lines 86-100, and line 46 for the first character) and of
\* generate_story_image_split_method (lines 207-209) that raise before any
\* request is sent
raises_before_request ==
    IF gen_class = "SplitSceneImageGenerator"
    THEN \E key \in SplitPageKeys : key \notin DOMAIN story_data[idx]
    ELSE \/ build_raises(characters)
         \/ Falsy(loras)
         \/ LET char1_lora == GetOrNone(loras, characters["character_1"]["fantasy_name"])
                char2_lora == GetOrNone(loras, characters["character_2"]["fantasy_name"])
            IN  \/ Falsy(char1_lora)
                \/ Falsy(char2_lora)
                \/ "trigger_word" \notin DOMAIN char1_lora
                \/ "lora_url" \notin DOMAIN char1_lora
                \/ /\ gen_class = "LoRAImageGenerator"
                   /\ \/ "trigger_word" \notin DOMAIN char2_lora
                      \/ "lora_url" \notin DOMAIN char2_lora

\* Split generator, lines 214-222: after the scene was split both names are
\* looked up, then the first character's image is generated
raises_before_first_request ==
    \/ build_raises(characters)
    \/ raises_before_character_request("character_1")

\* lines 111 and 46 of the Dual generator, lines 226-230 and 116-141 of the
\* Split generator, for the second character
raises_before_second_request ==
    raises_before_character_request("character_2")

\* an except branch that keeps the page's earlier image path
page_raises_keeps_path ==
    /\ images' = Append(images, Get(story_data[idx], "image_path", NullPath))
    /\ failed' = failed \cup {idx}
    /\ idx' = idx + 1
    /\ pc' = "loop"

\* the except branch of the for loop: images.append(None)
page_raises ==
    /\ images' = Append(images, NullPath)
    /\ failed' = failed \cup {idx}
    /\ idx' = idx + 1
    /\ pc' = "loop"

\* the try branch of the for loop: images.append(img_path)
page_succeeds ==
    /\ images' = Append(images, output_path(story_data[idx].page))
    /\ failed' = failed
    /\ idx' = idx + 1
    /\ pc' = "loop"

\* top of the for loop body: the generation method is called and either
\* raises in its checks or goes on to its first remote request
BeginPage ==
    /\ pc = "loop"
    /\ idx <= Len(story_data)
    /\ attempted' = attempted \cup {idx}
    /\ IF raises_before_request
       THEN page_raises
       ELSE /\ pc' = CASE gen_class = "LoRAImageGenerator" -> "subscribe"
                       [] gen_class = "DualLoRAImageGenerator" -> "subscribe_1"
                       [] gen_class = "SplitSceneImageGenerator" -> "split"
            /\ UNCHANGED <<images, failed, idx>>
    /\ UNCHANGED <<gen_class, file_at_start, characters_file, characters, lora_config_file, loras, story_file,
                   story_data,
                   result, requests>>
    /\ UNCHANGED story_vars

\* Split generator, lines 211-222: split_scene_description posts the scene
\* to Gemini and returns the two descriptions or raises; then the names are
\* looked up and the first character's generation begins
SplitScene(ok) ==
    /\ pc = "split"
    /\ requests' = requests + 1
    /\ IF ~ok \/ raises_before_first_request
       THEN page_raises
       ELSE /\ pc' = "subscribe_1"
            /\ UNCHANGED <<images, failed, idx>>
    /\ UNCHANGED <<gen_class, file_at_start, characters_file, characters, lora_config_file, loras, story_file,
                   story_data,
                   result, attempted>>
    /\ UNCHANGED story_vars

\* fal_client.subscribe(...) returns a result or raises
Subscribe(ok) ==
    /\ pc \in {"subscribe", "subscribe_1", "subscribe_2"}
    /\ requests' = requests + 1
    /\ IF ok
       THEN /\ pc' = CASE pc = "subscribe" -> "download"
                       [] pc = "subscribe_1" -> "download_1"
                       [] pc = "subscribe_2" -> "download_2"
            /\ UNCHANGED <<images, failed, idx>>
       ELSE page_raises
    /\ UNCHANGED <<gen_class, file_at_start, characters_file, characters, lora_config_file, loras, story_file,
                   story_data,
                   result, attempted>>
    /\ UNCHANGED story_vars

\* LoRA generator, lines 117-132: the image is downloaded, resized and saved
DownloadAndSave(ok) ==
    /\ pc = "download"
    /\ requests' = requests + 1
    /\ IF ok THEN page_succeeds ELSE page_raises
    /\ UNCHANGED <<gen_class, file_at_start, characters_file, characters, lora_config_file, loras, story_file,
                   story_data,
                   result, attempted>>
    /\ UNCHANGED story_vars

\* DownloadCharacter that goes on to the composite as soon as the first
\* character's image is there
DownloadCharacter_first_only(ok) ==
    /\ pc \in {"download_1", "download_2"}
    /\ requests' = requests + 1
    /\ IF ~ok THEN page_raises
       ELSE /\ pc' = "composite"
            /\ UNCHANGED <<images, failed, idx>>
    /\ UNCHANGED <<gen_class, file_at_start, characters_file, characters, lora_config_file, loras, story_file,
                   story_data,
                   result, attempted>>
    /\ UNCHANGED story_vars

\* Dual generator, lines 57-61, Split generator, lines 154-158: one
\* character's image is downloaded
DownloadCharacter(ok) ==
    /\ pc \in {"download_1", "download_2"}
    /\ requests' = requests + 1
    /\ IF ~ok THEN page_raises
       ELSE IF pc = "download_2"
       THEN /\ pc' = "composite"
            /\ UNCHANGED <<images, failed, idx>>
       ELSE IF raises_before_second_request THEN page_raises
       ELSE /\ pc' = "subscribe_2"
            /\ UNCHANGED <<images, failed, idx>>
    /\ UNCHANGED <<gen_class, file_at_start, characters_file, characters, lora_config_file, loras, story_file,
                   story_data,
                   result, attempted>>
    /\ UNCHANGED story_vars

\* Dual generator, lines 121-130: create_simple_composite saves the page;
\* Split generator, lines 233-247: the composite and the descriptions file
\* are saved
Composite(ok) ==
    /\ pc = "composite"
    /\ IF ok THEN page_succeeds ELSE page_raises
    /\ UNCHANGED <<gen_class, file_at_start, characters_file, characters, lora_config_file, loras, story_file,
                   story_data,
                   result, attempted, requests>>
    /\ UNCHANGED story_vars

\* the second for loop: page['image_path'] = images[i] for every page
UpdateStory ==
    /\ pc = "loop"
    /\ idx > Len(story_data)
    /\ story_data' = [i \in 1..Len(story_data) |->
                        [k \in DOMAIN story_data[i] \cup {"image_path"} |->
                            IF k = "image_path" THEN images[i] ELSE story_data[i][k]]]
    /\ pc' = "write"
    /\ UNCHANGED <<gen_class, file_at_start, characters_file, characters, lora_config_file, loras, story_file,
                   images, idx,
                   result, failed, attempted, requests>>
    /\ UNCHANGED story_vars

\* open(story_file, 'w'): the story file is truncated in place
WriteStory ==
    /\ pc = "write"
    /\ story_file' = Truncated
    /\ pc' = "dump"
    /\ UNCHANGED <<gen_class, file_at_start, characters_file, characters, lora_config_file, loras, story_data,
                   images, idx,
                   result, failed, attempted, requests>>
    /\ UNCHANGED story_vars

\* json.dump(story_data, f) and the end of the with block: the document is
\* written into the truncated file, or the write raises (OSError) and the
\* call ends with the file as it is
DumpStory(ok) ==
    /\ pc = "dump"
    /\ IF ok
       THEN /\ story_file' = story_data
            /\ pc' = "return"
       ELSE /\ story_file' = story_file
            /\ pc' = "aborted"
    /\ UNCHANGED <<gen_class, file_at_start, characters_file, characters, lora_config_file, loras,
                   story_data, images, idx,
                   result, failed, attempted, requests>>
    /\ UNCHANGED story_vars

\* the run is aborted inside the for loop by an exception that is not an
\* Exception (KeyboardInterrupt, SystemExit): `except Exception` lets it
\* through and the call ends without reaching the write
Interrupt ==
    /\ pc \in {"loop", "split", "subscribe", "subscribe_1", "subscribe_2", "download",
               "download_1", "download_2", "composite"}
    /\ idx <= Len(story_data)
    /\ pc' = "aborted"
    /\ UNCHANGED <<gen_class, file_at_start, characters_file, characters, lora_config_file, loras,
                   story_file, story_data, images, idx,
                   result, failed, attempted, requests>>
    /\ UNCHANGED story_vars

\* return images
ReturnImages ==
    /\ pc = "return"
    /\ result' = images
    /\ pc' = "done"
    /\ UNCHANGED <<gen_class, file_at_start, characters_file, characters, lora_config_file, loras, story_file,
                   story_data,
                   images, idx, failed, attempted, requests>>
    /\ UNCHANGED story_vars

\* the index of the first page p with p['page'] == number, 0 when the for
\* loop of lines 143-146 ends without a match
FindPage(pages, number) ==
    IF \E i \in 1..Len(pages) : pages[i].page = number
    THEN CHOOSE i \in 1..Len(pages) :
            /\ pages[i].page = number
            /\ \A k \in 1..(i - 1) : pages[k].page # number
    ELSE 0

\* what regenerate_single_page leaves alone until it writes
regen_frame ==
    <<gen_class, file_at_start, characters_file, characters, lora_config_file,
      loras, images, failed, attempted>>

\* regenerate_single_page(story_file, number), lines 136-160: the story is
\* read and the page looked up; without it the call returns None; with it
\* generate_story_image_with_loras is called, whose checks raise into the
\* except branch (return None) or which goes on to its request
RegenerateSinglePage(number) ==
    /\ pc = "idle"
    /\ "regenerate_single_page" \in ClassMethods(gen_class)
    /\ page_number' = number
    /\ story_data' = story_file
    /\ idx' = FindPage(story_file, number)
    /\ IF idx' = 0 \/ raises_before_request
       THEN /\ result' = NullPath
            /\ pc' = "regen_returned"
       ELSE /\ result' = result
            /\ pc' = "regen_subscribe"
    /\ UNCHANGED <<story_file, requests>>
    /\ UNCHANGED regen_frame
    /\ UNCHANGED <<page_data, parsed, bundle, outcome, first_call, calls,
                   gemini_vars, threads, comfy_vars, trainer_vars>>

\* fal_client.subscribe inside generate_story_image_with_loras returns a
\* result, or raises into the except branch of regenerate_single_page
RegenerateSubscribe(ok) ==
    /\ pc = "regen_subscribe"
    /\ requests' = requests + 1
    /\ IF ok
       THEN /\ result' = result
            /\ pc' = "regen_download"
       ELSE /\ result' = NullPath
            /\ pc' = "regen_returned"
    /\ UNCHANGED <<story_file, story_data, idx>>
    /\ UNCHANGED regen_frame
    /\ UNCHANGED story_vars

\* the image is downloaded and saved and, line 163, page['image_path'] is
\* set in the loaded story; or the download raises
RegenerateDownload(ok) ==
    /\ pc = "regen_download"
    /\ requests' = requests + 1
    /\ IF ok
       THEN /\ story_data' =
                [story_data EXCEPT ![idx] =
                    [k \in DOMAIN story_data[idx] \cup {"image_path"} |->
                        IF k = "image_path"
                        THEN output_path(story_data[idx].page)
                        ELSE story_data[idx][k]]]
            /\ result' = result
            /\ pc' = "regen_write"
       ELSE /\ story_data' = story_data
            /\ result' = NullPath
            /\ pc' = "regen_returned"
    /\ UNCHANGED <<story_file, idx>>
    /\ UNCHANGED regen_frame
    /\ UNCHANGED story_vars

\* line 164, open(story_file, 'w'): the file is truncated in place, or the
\* open raises into the except branch
RegenerateOpen(ok) ==
    /\ pc = "regen_write"
    /\ IF ok
       THEN /\ story_file' = Truncated
            /\ result' = result
            /\ pc' = "regen_dump"
       ELSE /\ story_file' = story_file
            /\ result' = NullPath
            /\ pc' = "regen_returned"
    /\ UNCHANGED <<story_data, idx, requests>>
    /\ UNCHANGED regen_frame
    /\ UNCHANGED story_vars

\* lines 165-168: json.dump writes the story and the path is returned; or
\* the write raises (OSError) inside the try, and the except branch of line
\* 170 returns None
RegenerateDump(ok) ==
    /\ pc = "regen_dump"
    /\ IF ok
       THEN /\ story_file' = story_data
            /\ result' = story_data[idx].image_path
       ELSE /\ story_file' = story_file
            /\ result' = NullPath
    /\ pc' = "regen_returned"
    /\ UNCHANGED <<story_data, idx, requests>>
    /\ UNCHANGED regen_frame
    /\ UNCHANGED story_vars

NextImages ==
    \/ Construct
    \/ StartRun
    \/ \E number \in 0..(MaxPages + 1) : RegenerateSinglePage(number)
    \/ \E ok \in BOOLEAN : RegenerateSubscribe(ok)
    \/ \E ok \in BOOLEAN : RegenerateDownload(ok)
    \/ \E ok \in BOOLEAN : RegenerateOpen(ok)
    \/ \E ok \in BOOLEAN : RegenerateDump(ok)
    \/ BeginPage
    \/ \E ok \in BOOLEAN : SplitScene(ok)
    \/ \E ok \in BOOLEAN : Subscribe(ok)
    \/ \E ok \in BOOLEAN : DownloadAndSave(ok)
    \/ \E ok \in BOOLEAN : DownloadCharacter(ok)
    \/ \E ok \in BOOLEAN : Composite(ok)
    \/ UpdateStory
    \/ WriteStory
    \/ \E ok \in BOOLEAN : DumpStory(ok)
    \/ Interrupt
    \/ ReturnImages

SpecImages == InitImages /\ [][NextImages]_vars

\* ------------------------------------------------------------------------
\* image_generator_comfyui.py: the page pipeline
\*
\* prepare_workflow, queue_prompt, wait_for_completion, download_image and
\* generate_story_image are written with a self parameter and are called
\* as methods (lines 337-358, 429).  This section models their bodies as
\* the methods of a constructed generator.
\* ------------------------------------------------------------------------

\* '__BASE_MODEL__'
PH_BASE_MODEL ==
    <<"_", "_", "B", "A", "S", "E", "_", "M", "O", "D", "E", "L", "_", "_">>

\* '__CHAR1_LORA__'
PH_CHAR1_LORA ==
    <<"_", "_", "C", "H", "A", "R", "1", "_", "L", "O", "R", "A", "_", "_">>

\* '__CHAR2_LORA__'
PH_CHAR2_LORA ==
    <<"_", "_", "C", "H", "A", "R", "2", "_", "L", "O", "R", "A", "_", "_">>

\* '__CHAR1_PROMPT__'
PH_CHAR1_PROMPT ==
    <<"_", "_", "C", "H", "A", "R", "1", "_", "P", "R", "O", "M", "P", "T",
      "_", "_">>

\* '__CHAR2_PROMPT__'
PH_CHAR2_PROMPT ==
    <<"_", "_", "C", "H", "A", "R", "2", "_", "P", "R", "O", "M", "P", "T",
      "_", "_">>

\* '__SCENE_PROMPT__'
PH_SCENE_PROMPT ==
    <<"_", "_", "S", "C", "E", "N", "E", "_", "P", "R", "O", "M", "P", "T",
      "_", "_">>

\* '__NEGATIVE_PROMPT__'
PH_NEGATIVE_PROMPT ==
    <<"_", "_", "N", "E", "G", "A", "T", "I", "V", "E", "_", "P", "R", "O",
      "M", "P", "T", "_", "_">>

\* '__SEED__'
PH_SEED ==
    <<"_", "_", "S", "E", "E", "D", "_", "_">>

\* '__FILENAME_PREFIX__'
PH_FILENAME_PREFIX ==
    <<"_", "_", "F", "I", "L", "E", "N", "A", "M", "E", "_", "P", "R", "E",
      "F", "I", "X", "_", "_">>

\* 'CheckpointLoaderSimple'
CheckpointLoaderSimple ==
    <<"C", "h", "e", "c", "k", "p", "o", "i", "n", "t", "L", "o", "a", "d",
      "e", "r", "S", "i", "m", "p", "l", "e">>

\* 'euler_ancestral'
EulerAncestral ==
    <<"e", "u", "l", "e", "r", "_", "a", "n", "c", "e", "s", "t", "r", "a",
      "l">>

\* 'sd_xl_base_1.0.safetensors'
BaseModel ==
    <<"s", "d", "_", "x", "l", "_", "b", "a", "s", "e", "_", "1", ".", "0",
      ".", "s", "a", "f", "e", "t", "e", "n", "s", "o", "r", "s">>

\* 'kneeling to examine a flower, serene expression, green and brown leather armor, clear face, consistent character design'
ComfyChar1Tail ==
    <<"k", "n", "e", "e", "l", "i", "n", "g", " ", "t", "o", " ", "e", "x",
      "a", "m", "i", "n", "e", " ", "a", " ", "f", "l", "o", "w", "e", "r",
      ",", " ", "s", "e", "r", "e", "n", "e", " ", "e", "x", "p", "r", "e",
      "s", "s", "i", "o", "n", ",", " ", "g", "r", "e", "e", "n", " ", "a",
      "n", "d", " ", "b", "r", "o", "w", "n", " ", "l", "e", "a", "t", "h",
      "e", "r", " ", "a", "r", "m", "o", "r", ",", " ", "c", "l", "e", "a",
      "r", " ", "f", "a", "c", "e", ",", " ", "c", "o", "n", "s", "i", "s",
      "t", "e", "n", "t", " ", "c", "h", "a", "r", "a", "c", "t", "e", "r",
      " ", "d", "e", "s", "i", "g", "n">>

\* 'standing with one hand on hip, scowling down at boots, dark blue and silver clothing, clear face, consistent character design'
ComfyChar2Tail ==
    <<"s", "t", "a", "n", "d", "i", "n", "g", " ", "w", "i", "t", "h", " ",
      "o", "n", "e", " ", "h", "a", "n", "d", " ", "o", "n", " ", "h", "i",
      "p", ",", " ", "s", "c", "o", "w", "l", "i", "n", "g", " ", "d", "o",
      "w", "n", " ", "a", "t", " ", "b", "o", "o", "t", "s", ",", " ", "d",
      "a", "r", "k", " ", "b", "l", "u", "e", " ", "a", "n", "d", " ", "s",
      "i", "l", "v", "e", "r", " ", "c", "l", "o", "t", "h", "i", "n", "g",
      ",", " ", "c", "l", "e", "a", "r", " ", "f", "a", "c", "e", ",", " ",
      "c", "o", "n", "s", "i", "s", "t", "e", "n", "t", " ", "c", "h", "a",
      "r", "a", "c", "t", "e", "r", " ", "d", "e", "s", "i", "g", "n">>

\* ') on the right, '
ON_THE_RIGHT_COMMA ==
    <<")", " ", "o", "n", " ", "t", "h", "e", " ", "r", "i", "g", "h", "t",
      ",", " ">>

\* ') on the left. '
ON_THE_LEFT_STOP ==
    <<")", " ", "o", "n", " ", "t", "h", "e", " ", "l", "e", "f", "t", ".",
      " ">>

\* 'Dappled sunlight through forest, cinematic fantasy illustration, high detail, both characters clearly visible'
ComfySceneTail ==
    <<"D", "a", "p", "p", "l", "e", "d", " ", "s", "u", "n", "l", "i", "g",
      "h", "t", " ", "t", "h", "r", "o", "u", "g", "h", " ", "f", "o", "r",
      "e", "s", "t", ",", " ", "c", "i", "n", "e", "m", "a", "t", "i", "c",
      " ", "f", "a", "n", "t", "a", "s", "y", " ", "i", "l", "l", "u", "s",
      "t", "r", "a", "t", "i", "o", "n", ",", " ", "h", "i", "g", "h", " ",
      "d", "e", "t", "a", "i", "l", ",", " ", "b", "o", "t", "h", " ", "c",
      "h", "a", "r", "a", "c", "t", "e", "r", "s", " ", "c", "l", "e", "a",
      "r", "l", "y", " ", "v", "i", "s", "i", "b", "l", "e">>

\* 'low quality, blurry, extra people, crowd, text, watermark, signature, mutated anatomy, bad hands'
ComfyNegative ==
    <<"l", "o", "w", " ", "q", "u", "a", "l", "i", "t", "y", ",", " ", "b",
      "l", "u", "r", "r", "y", ",", " ", "e", "x", "t", "r", "a", " ", "p",
      "e", "o", "p", "l", "e", ",", " ", "c", "r", "o", "w", "d", ",", " ",
      "t", "e", "x", "t", ",", " ", "w", "a", "t", "e", "r", "m", "a", "r",
      "k", ",", " ", "s", "i", "g", "n", "a", "t", "u", "r", "e", ",", " ",
      "m", "u", "t", "a", "t", "e", "d", " ", "a", "n", "a", "t", "o", "m",
      "y", ",", " ", "b", "a", "d", " ", "h", "a", "n", "d", "s">>

\* 'Tobias'
NameTobias ==
    <<"T", "o", "b", "i", "a", "s">>

\* 'Olive'
NameOlive ==
    <<"O", "l", "i", "v", "e">>

\* 'human'
RaceHuman ==
    <<"h", "u", "m", "a", "n">>

\* 'elf'
RaceElf ==
    <<"e", "l", "f">>

\* 'rogue'
ClassRogue ==
    <<"r", "o", "g", "u", "e">>

\* 'ranger'
ClassRanger ==
    <<"r", "a", "n", "g", "e", "r">>

\* 'red hair'
HairRed ==
    <<"r", "e", "d", " ", "h", "a", "i", "r">>

\* 'story'
StoryId ==
    <<"s", "t", "o", "r", "y">>

\* '/page_'
SLASH_PAGE ==
    <<"/", "p", "a", "g", "e", "_">>

\* '7'
SeedSmall ==
    <<"7">>

\* '999999'
SeedLarge ==
    <<"9", "9", "9", "9", "9", "9">>

\* scaled: the timeout of wait_for_completion (300 in the source), the
\* pause between two polls (2) and the longest a poll takes, in seconds
WaitTimeout == 4

SleepSeconds == 2

MaxPollSeconds == 1

\* pages given to generate_story_image in one run
MaxComfyPages == 2

\* JSON values of a workflow: a string, a number, a list
JStr(s) == [str |-> s]

JNum(n) == [num |-> n]

JList(items) == [list |-> items]

\* ComfyUIImageGenerator.create_workflow_template: the leaves of the
\* template, by node and input.  The nine leaves with a placeholder are all
\* here; of the others one of each kind is kept.
create_workflow_template ==
    [ckpt_name_1 |-> JStr(PH_BASE_MODEL),
     class_type_1 |-> JStr(CheckpointLoaderSimple),
     lora_name_2 |-> JStr(PH_CHAR1_LORA),
     strength_model_2 |-> JNum(80),
     model_2 |-> JList(<<JStr(<<"1">>), JNum(0)>>),
     lora_name_3 |-> JStr(PH_CHAR2_LORA),
     text_4 |-> JStr(PH_CHAR1_PROMPT),
     text_5 |-> JStr(PH_CHAR2_PROMPT),
     text_6 |-> JStr(PH_SCENE_PROMPT),
     text_10 |-> JStr(PH_NEGATIVE_PROMPT),
     seed_11 |-> JStr(PH_SEED),
     sampler_name_11 |-> JStr(EulerAncestral),
     filename_prefix_13 |-> JStr(PH_FILENAME_PREFIX)]

\* the keys of the dict replacements (lines 266-276), in their order
Placeholders ==
    <<PH_BASE_MODEL, PH_CHAR1_LORA, PH_CHAR2_LORA, PH_CHAR1_PROMPT,
      PH_CHAR2_PROMPT, PH_SCENE_PROMPT, PH_NEGATIVE_PROMPT, PH_SEED,
      PH_FILENAME_PREFIX>>

\* characters.json with the fields build_character_prompts reads
ComfyCharacters ==
    [character_1 |->
        [name |-> NameTobias, fantasy_name |-> TobiasDunsmir,
         race |-> RaceHuman, class |-> ClassRogue,
         visual_design |-> [hair |-> HairRed, eyes |-> <<>>, skin |-> <<>>]],
     character_2 |->
        [name |-> NameOlive, fantasy_name |-> OliveElmmist,
         race |-> RaceElf, class |-> ClassRanger]]

\* the same without the race of the second character
ComfyCharactersNoRace ==
    [character_1 |-> ComfyCharacters["character_1"],
     character_2 |->
        [name |-> NameOlive, fantasy_name |-> OliveElmmist,
         class |-> ClassRanger]]

\* lora_config.json as the ComfyUI generator may load it: both characters
\* with a lora_filename, the first character only, and registrations of the
\* fal.ai trainer, which have no lora_filename
ComfyLoraConfigs ==
    { (OliveElmmist :> EntryOlive) @@ (TobiasDunsmir :> EntryTobias),
      (TobiasDunsmir :> EntryTobias),
      (OliveElmmist :> FalEntry(TriggerOlive))
          @@ (TobiasDunsmir :> FalEntry(TriggerTobias)) }

\* scene descriptions given to the pipeline; the second has a line break
ComfyScenes == {SentDragon, GemTextLines}

\* str(int(time.time() * 1000) % 1000000)
Seeds == {SeedSmall, SeedLarge}

\* visual_summary(ch) of build_character_prompts
visual_summary(ch) ==
    LET v == Get(ch, "visual_design", EmptyDict)
        hair == IF Get(v, "hair", <<>>) # <<>> THEN <<v["hair"]>> ELSE <<>>
        eyes == IF Get(v, "eyes", <<>>) # <<>> THEN <<v["eyes"]>> ELSE <<>>
        skin == IF Get(v, "skin", <<>>) # <<>> THEN <<v["skin"]>> ELSE <<>>
        parts == hair \o eyes \o skin \o <<ch["race"], ch["class"]>>
    IN  Join(COMMA_SPACE, SelectSeq(parts, LAMBDA part : part # <<>>))

\* what makes build_character_prompts and prepare_workflow raise: a missing
\* registration (line 175-176) or a missing key
prepare_raises ==
    \/ build_raises(characters)
    \/ Falsy(loras)
    \/ \E key \in {"character_1", "character_2"} :
        \/ Falsy(GetOrNone(loras, characters[key]["fantasy_name"]))
        \/ "lora_filename" \notin DOMAIN loras[characters[key]["fantasy_name"]]
        \/ {"race", "class", "name"} \ DOMAIN characters[key] # {}

\* build_character_prompts(scene_description): the four prompts
build_character_prompts(scene_description) ==
    LET char1 == characters["character_1"]
        char2 == characters["character_2"]
        char1_lora == loras[char1["fantasy_name"]]
        char2_lora == loras[char2["fantasy_name"]]
        strength1 == Get(char1_lora, "default_strength", DefaultStrength1)
        strength2 == Get(char2_lora, "default_strength", DefaultStrength2)
        lora_tag1 == LoraTag(char1_lora["lora_filename"], strength1)
        lora_tag2 == LoraTag(char2_lora["lora_filename"], strength2)
        trigger1 == Get(char1_lora, "trigger_word", char1["fantasy_name"])
        trigger2 == Get(char2_lora, "trigger_word", char2["fantasy_name"])
    IN  [char1_prompt |->
            lora_tag1 \o <<" ">> \o trigger1 \o COMMA_SPACE \o char1["name"]
            \o COMMA_SPACE \o visual_summary(char1) \o COMMA_SPACE \o ComfyChar1Tail,
         char2_prompt |->
            lora_tag2 \o <<" ">> \o trigger2 \o COMMA_SPACE \o char2["name"]
            \o COMMA_SPACE \o visual_summary(char2) \o COMMA_SPACE \o ComfyChar2Tail,
         scene_prompt |->
            scene_description \o DOT_SPACE
            \o char1["name"] \o <<" ", "(">> \o trigger1 \o ON_THE_RIGHT_COMMA
            \o char2["name"] \o <<" ", "(">> \o trigger2 \o ON_THE_LEFT_STOP
            \o ComfySceneTail,
         negative_prompt |-> ComfyNegative]

\* prompt.replace('\n', ' ').replace('\r', ' ')
OneLine(prompt) == Replace(Replace(prompt, <<"\n">>, <<" ">>), <<"\r">>, <<" ">>)

\* f"{story_id}/page_{page_num:02d}"
filename_prefix(story_id, page_num) ==
    story_id \o SLASH_PAGE \o (IF page_num < 10 THEN <<"0">> ELSE <<>>)
    \o FormatNat(page_num)

\* the dict replacements of prepare_workflow, as the values in the order of
\* Placeholders
replacements(scene_description, page_num, story_id, base_model, seed) ==
    LET prompts == build_character_prompts(scene_description)
    IN  <<base_model,
          loras[characters["character_1"]["fantasy_name"]]["lora_filename"],
          loras[characters["character_2"]["fantasy_name"]]["lora_filename"],
          OneLine(prompts.char1_prompt),
          OneLine(prompts.char2_prompt),
          OneLine(prompts.scene_prompt),
          OneLine(prompts.negative_prompt),
          seed,
          filename_prefix(story_id, page_num)>>

\* the loop over replacements.items() on one string
RECURSIVE ReplaceEach(_, _, _)
ReplaceEach(s, values, i) ==
    IF i > Len(Placeholders) THEN s
    ELSE ReplaceEach(Replace(s, Placeholders[i], values[i]), values, i + 1)

\* replace_in_dict on a leaf: strings are rewritten, list items too, other
\* values are kept
replace_in_leaf(obj, values) ==
    IF "str" \in DOMAIN obj THEN JStr(ReplaceEach(obj.str, values, 1))
    ELSE IF "list" \in DOMAIN obj
    THEN JList([k \in 1..Len(obj.list) |->
                    IF "str" \in DOMAIN obj.list[k]
                    THEN JStr(ReplaceEach(obj.list[k].str, values, 1))
                    ELSE obj.list[k]])
    ELSE obj

\* prepare_workflow that fills the placeholders of the template itself
\* instead of a copy
prepare_workflow_in_place(template, values) ==
    LET filled == [k \in DOMAIN template |-> replace_in_leaf(template[k], values)]
    IN  [workflow |-> filled, template |-> filled]

\* prepare_workflow: a copy of the template (json.loads(json.dumps(...)))
\* is rebuilt by replace_in_dict; the template is not touched
prepare_workflow(template, values) ==
    LET copy == template
    IN  [workflow |-> [k \in DOMAIN copy |-> replace_in_leaf(copy[k], values)],
         template |-> template]

\* an exception instead of a response
Raises == [raises |-> TRUE]

\* what POST /prompt may answer: an exception, an error status, JSON
\* without a prompt_id, JSON with one
QueueResponses ==
    { Raises,
      [status_code |-> 500],
      [status_code |-> 200, json |-> EmptyDict],
      [status_code |-> 200, json |-> [prompt_id |-> "p1"]] }

\* one image of a node output
ImageInfo(name) == [filename |-> name, subfolder |-> "story"]

\* history[prompt_id]['outputs'] as the (node id, node output) pairs of
\* .items(): none, a node without images, an empty image list, one image,
\* two images after a node without images, two nodes with an image after a
\* node with an empty image list
OutputLists ==
    { <<>>,
      <<[node |-> "12", output |-> [latents |-> 1]]>>,
      <<[node |-> "13", output |-> [images |-> <<>>]]>>,
      <<[node |-> "13", output |-> [images |-> <<ImageInfo("a.png")>>]]>>,
      <<[node |-> "12", output |-> [latents |-> 1]],
        [node |-> "13", output |-> [images |-> <<ImageInfo("b.png"), ImageInfo("c.png")>>]]>>,
      <<[node |-> "9", output |-> [images |-> <<>>]],
        [node |-> "13", output |-> [images |-> <<ImageInfo("d.png")>>]],
        [node |-> "14", output |-> [images |-> <<ImageInfo("e.png")>>]]>> }

\* entries of the history: without status, with an empty status, not
\* completed, completed (with every list of outputs, and without outputs)
HistoryEntries ==
    { [outputs |-> <<>>],
      [status |-> EmptyDict, outputs |-> <<>>],
      [status |-> [completed |-> FALSE], outputs |-> <<>>],
      [status |-> [completed |-> TRUE]] }
    \cup { [status |-> [completed |-> TRUE], outputs |-> o] : o \in OutputLists }

\* the entries whose status reports completed
Completed(entry) ==
    /\ "status" \in DOMAIN entry
    /\ Get(entry.status, "completed", FALSE)

\* what GET /history/{prompt_id} may answer: an exception, an error status,
\* a body that is not JSON, a history without the id, a history with the
\* id, a history with a completed entry of another id
HistoryResponses(id) ==
    { Raises,
      [status_code |-> 404],
      [status_code |-> 200, json |-> Raises],
      [status_code |-> 200, json |-> EmptyDict],
      [status_code |-> 200,
       json |-> ("p0" :> [status |-> [completed |-> TRUE], outputs |-> <<>>])] }
    \cup { [status_code |-> 200, json |-> (id :> entry)] : entry \in HistoryEntries }

\* A ComfyUI generator was constructed: the registries are loaded and the
\* template is built.
InitComfy ==
    /\ gen_class = "ComfyUIImageGenerator"
    /\ characters \in {ComfyCharacters, ComfyCharactersNoRace}
    /\ characters_file = [exists |-> TRUE, content |-> characters]
    /\ loras \in ComfyLoraConfigs
    /\ lora_config_file = [exists |-> TRUE, content |-> loras]
    /\ workflow_template = create_workflow_template
    /\ workflow = None
    /\ cpc = "idle"
    /\ comfy_page = 0
    /\ steps = <<>>
    /\ elapsed = 0
    /\ prompt_id = NoPromptId
    /\ response = None
    /\ history = None
    /\ comfy_result = NullPath
    /\ NoStoryRun
    /\ NoTrainerRun
    /\ threads = <<>>
    /\ page_data = None
    /\ parsed = None
    /\ bundle = None
    /\ outcome = "none"
    /\ first_call = None
    /\ calls = 0
    /\ story_file = <<>>
    /\ file_at_start = <<>>
    /\ story_data = None
    /\ images = <<>>
    /\ pc = "idle"
    /\ idx = 0
    /\ result = None
    /\ failed = {}
    /\ attempted = {}
    /\ requests = 0
    /\ page_number = 0

\* what no step of the pipeline changes
comfy_frame ==
    <<characters_file, characters, lora_config_file, loras, parsed, bundle,
      outcome, first_call, calls, story_pages, built, gpc, saved, reread,
      threads, gen_class, story_file, file_at_start, story_data,
      images, pc, idx, result, failed, attempted, requests, page_number,
      trainer_vars>>

\* generate_story_image, line 337, called for the next page of the story:
\* the workflow of the page is prepared, or prepare_workflow raises
PrepareWorkflow(scene_description, seed) ==
    /\ cpc \in {"idle", "returned", "raised"}
    /\ comfy_page < MaxComfyPages
    /\ comfy_page' = comfy_page + 1
    /\ page_data' = [page |-> comfy_page + 1, scene_description |-> scene_description]
    /\ steps' = <<"prepare">>
    /\ elapsed' = 0
    /\ prompt_id' = NoPromptId
    /\ response' = None
    /\ history' = None
    /\ comfy_result' = NullPath
    /\ IF prepare_raises
       THEN /\ cpc' = "raised"
            /\ UNCHANGED <<workflow, workflow_template>>
       ELSE \E values \in {replacements(scene_description, comfy_page + 1,
                                          StoryId, BaseModel, seed)} :
            \E prepared \in {prepare_workflow(workflow_template, values)} :
                /\ workflow' = prepared.workflow
                /\ workflow_template' = prepared.template
                /\ cpc' = "queue"
    /\ UNCHANGED comfy_frame

\* queue_prompt and line 342: the workflow is posted; an exception, a
\* status other than 200 or a body without prompt_id raises
QueuePrompt(r) ==
    /\ cpc = "queue"
    /\ steps' = Append(steps, "queue")
    /\ IF r = Raises \/ r.status_code # 200 \/ "prompt_id" \notin DOMAIN r.json
       THEN /\ cpc' = "raised"
            /\ UNCHANGED <<prompt_id, elapsed>>
       ELSE /\ prompt_id' = r.json.prompt_id
            /\ elapsed' = 0
            /\ cpc' = "wait"
    /\ UNCHANGED <<workflow_template, workflow, comfy_page, response, history,
                   comfy_result>>
    /\ UNCHANGED <<page_data, comfy_frame>>

\* the while condition of wait_for_completion and the raise after the loop
CheckTimeout ==
    /\ cpc = "wait"
    /\ cpc' = IF elapsed < WaitTimeout THEN "poll" ELSE "raised"
    /\ UNCHANGED <<workflow_template, workflow, comfy_page, steps, elapsed,
                   prompt_id, response, history, comfy_result>>
    /\ UNCHANGED <<page_data, comfy_frame>>

\* the poll answers of r that end the wait when any entry of the requested
\* id is taken for a result
PollEnds_any_entry(r) ==
    /\ r # Raises
    /\ r.status_code = 200
    /\ r.json # Raises
    /\ prompt_id \in DOMAIN r.json

\* lines 297-301: the poll answers that end the wait
PollEnds(r) ==
    /\ r # Raises
    /\ r.status_code = 200
    /\ r.json # Raises
    /\ prompt_id \in DOMAIN r.json
    /\ Completed(r.json[prompt_id])

\* one pass of the try block of wait_for_completion: the history is
\* requested, which takes d seconds; a completed entry of prompt_id is
\* returned, anything else (the bare except included) goes on to the sleep
Poll(r, d) ==
    /\ cpc = "poll"
    /\ steps' = Append(steps, "poll")
    /\ elapsed' = elapsed + d
    /\ response' = r
    /\ IF PollEnds(r)
       THEN /\ history' = r.json[prompt_id]
            /\ cpc' = "scan"
       ELSE /\ history' = history
            /\ cpc' = "sleep"
    /\ UNCHANGED <<workflow_template, workflow, comfy_page, prompt_id,
                   comfy_result>>
    /\ UNCHANGED <<page_data, comfy_frame>>

\* time.sleep(2)
Sleep ==
    /\ cpc = "sleep"
    /\ elapsed' = elapsed + SleepSeconds
    /\ cpc' = "wait"
    /\ UNCHANGED <<workflow_template, workflow, comfy_page, steps, prompt_id,
                   response, history, comfy_result>>
    /\ UNCHANGED <<page_data, comfy_frame>>

\* the node outputs that have a non-empty list of images
WithImages(outputs) ==
    SelectSeq(outputs,
              LAMBDA pair : /\ "images" \in DOMAIN pair.output
                            /\ pair.output.images # <<>>)

\* lines 349-362: the outputs are scanned for the first image; without one
\* the call raises "No image output found"
ScanOutputs ==
    /\ cpc = "scan"
    /\ cpc' = IF WithImages(Get(history, "outputs", <<>>)) = <<>>
              THEN "raised"
              ELSE "download"
    /\ UNCHANGED <<workflow_template, workflow, comfy_page, steps, elapsed,
                   prompt_id, response, history, comfy_result>>
    /\ UNCHANGED <<page_data, comfy_frame>>

\* the image the scan takes when the last one found is taken
first_image_last(outputs) ==
    LET found == WithImages(outputs)
        images_ == found[Len(found)].output.images
    IN  images_[Len(images_)]

\* the img_info of the first pass of the inner loop of lines 351-362
first_image(outputs) == WithImages(outputs)[1].output.images[1]

\* f"images/{story_id}/page_{page_num:02d}.png"
local_path(page_num) == output_path(page_num)

\* download_image for the first image and the return of line 362; a status
\* other than 200, or an exception, raises
DownloadImage(ok) ==
    /\ cpc = "download"
    /\ steps' = Append(steps, "download " \o first_image(history.outputs).filename)
    /\ IF ok
       THEN /\ comfy_result' = local_path(comfy_page)
            /\ cpc' = "returned"
       ELSE /\ comfy_result' = comfy_result
            /\ cpc' = "raised"
    /\ UNCHANGED <<workflow_template, workflow, comfy_page, elapsed, prompt_id,
                   response, history>>
    /\ UNCHANGED <<page_data, comfy_frame>>

\* a poll with any answer the server may give, taking any time up to
\* MaxPollSeconds
PollOnce ==
    /\ cpc = "poll"
    /\ \E r \in HistoryResponses(prompt_id), d \in 0..MaxPollSeconds : Poll(r, d)

NextComfy ==
    \/ \E scene_description \in ComfyScenes, seed \in Seeds :
            PrepareWorkflow(scene_description, seed)
    \/ \E r \in QueueResponses : QueuePrompt(r)
    \/ CheckTimeout
    \/ PollOnce
    \/ Sleep
    \/ ScanOutputs
    \/ \E ok \in BOOLEAN : DownloadImage(ok)

SpecComfy == InitComfy /\ [][NextComfy]_vars

\* the loop of wait_for_completion goes on running: the clock is read, every
\* GET returns or raises, every sleep ends
SpecComfyFair ==
    SpecComfy /\ WF_vars(CheckTimeout) /\ WF_vars(PollOnce) /\ WF_vars(Sleep)

\* ------------------------------------------------------------------------
\* lora_trainer.py: LoRATrainer and the trainer script
\* ------------------------------------------------------------------------

\* operations on one trainer object
MaxTrainerOps == 3

\* d[key] = value
SetItem(d, key, value) ==
    [k \in DOMAIN d \cup {key} |-> IF k = key THEN value ELSE d[k]]

\* the character names given to the trainer
TrainerNames == {TobiasDunsmir, OliveElmmist}

\* the trigger words of the script
char1_trigger == "tobias_dunsmir_tok"

char2_trigger == "olive_elmmist_tok"

\* result['diffusers_lora_file']['url'] of a training
LoraUrls == {"https://fal/lora_a", "https://fal/lora_b"}

\* how a call of train_character_lora goes: the ZIP file is missing, the
\* upload raises, the training request raises, the result has no
\* diffusers_lora_file url, or the training completes
TrainingOutcomes == {"no_zip", "upload_raises", "subscribe_raises", "no_url", "ok"}

\* the remote requests a call of train_character_lora issues
training_requests(how) ==
    CASE how = "no_zip" -> <<>>
      [] how = "upload_raises" -> <<"upload_file">>
      [] OTHER -> <<"upload_file", "subscribe">>

\* train_character_lora that registers the character before the training
\* request is made
train_character_lora_registers_first(trained, character_name, trigger_word, lora_url, how) ==
    IF how \in {"no_zip", "upload_raises"}
    THEN trained
    ELSE SetItem(trained, character_name,
                 [trigger_word |-> trigger_word, lora_url |-> lora_url,
                  character_name |-> character_name])

\* train_character_lora: self.trained_loras after the call; the assignment
\* of lines 59-63 is reached only when nothing before it raised
train_character_lora(trained, character_name, trigger_word, lora_url, how) ==
    IF how = "ok"
    THEN SetItem(trained, character_name,
                 [trigger_word |-> trigger_word, lora_url |-> lora_url,
                  character_name |-> character_name])
    ELSE trained

\* what the trainer leaves alone
trainer_frame ==
    <<characters_file, characters, lora_config_file, loras, page_data, parsed,
      bundle, outcome, first_call, calls, gemini_vars, threads, gen_class,
      story_file, file_at_start, story_data, images, pc, idx, result, failed,
      attempted, requests, page_number, comfy_vars>>

\* everything but the trainer is idle
OnlyTrainer ==
    /\ characters_file = [exists |-> TRUE, content |-> characters]
    /\ lora_config_file = [exists |-> FALSE]
    /\ loras = None
    /\ page_data = None
    /\ parsed = None
    /\ bundle = None
    /\ outcome = "none"
    /\ first_call = None
    /\ calls = 0
    /\ threads = <<>>
    /\ NoStoryRun
    /\ NoImageRun
    /\ page_number = 0
    /\ NoComfyRun

\* LoRATrainer.__init__: no adapter is registered
InitTrainer ==
    /\ trained_loras = EmptyDict
    /\ completed = <<>>
    /\ tpc = "object"
    /\ trainer_log = <<>>
    /\ config_file = [exists |-> FALSE]
    /\ characters = CharactersPlain
    /\ OnlyTrainer

\* a call of train_character_lora on the trainer object; trainer_log gets
\* the requests of the call, completed the trainings that returned
TrainCharacter(character_name, trigger_word, lora_url, how) ==
    /\ tpc = "object"
    /\ Len(trainer_log) < MaxTrainerOps
    /\ trained_loras' = train_character_lora(trained_loras, character_name,
                                             trigger_word, lora_url, how)
    /\ trainer_log' = Append(trainer_log,
                             [op |-> "train_character_lora",
                              character_name |-> character_name,
                              zip_exists |-> how # "no_zip",
                              raised |-> how # "ok",
                              requests |-> training_requests(how)])
    /\ completed' = IF how = "ok"
                    THEN Append(completed,
                                [character_name |-> character_name,
                                 trigger_word |-> trigger_word,
                                 lora_url |-> lora_url])
                    ELSE completed
    /\ UNCHANGED <<tpc, config_file>>
    /\ UNCHANGED trainer_frame

\* test_lora on a character that is not registered raises at line 97
test_lora_raises_unknown(trained, character_name) ==
    character_name \notin DOMAIN trained

\* the remote requests of test_lora: the generation and the download of the
\* test image
test_requests(trained, character_name, generated) ==
    IF test_lora_raises_unknown(trained, character_name) THEN <<>>
    ELSE IF generated THEN <<"subscribe", "get">>
    ELSE <<"subscribe">>

\* a call of test_lora on the trainer object: the generation returns or
\* raises, then the download and the save succeed or raise
TestLora(character_name, generated, saved_ok) ==
    /\ tpc = "object"
    /\ Len(trainer_log) < MaxTrainerOps
    /\ trainer_log' = Append(trainer_log,
                             [op |-> "test_lora",
                              character_name |-> character_name,
                              raised |-> \/ test_lora_raises_unknown(trained_loras, character_name)
                                         \/ ~generated
                                         \/ ~saved_ok,
                              requests |-> test_requests(trained_loras, character_name, generated)])
    /\ UNCHANGED <<trained_loras, completed, tpc, config_file>>
    /\ UNCHANGED trainer_frame

\* save_lora_config: the registry is written to the configuration file
SaveLoraConfig ==
    /\ tpc = "object"
    /\ Len(trainer_log) < MaxTrainerOps
    /\ config_file' = [exists |-> TRUE, content |-> trained_loras]
    /\ trainer_log' = Append(trainer_log,
                             [op |-> "save_lora_config",
                              character_name |-> <<>>,
                              raised |-> FALSE,
                              requests |-> <<>>])
    /\ UNCHANGED <<trained_loras, completed, tpc>>
    /\ UNCHANGED trainer_frame

NextTrainer ==
    \/ \E character_name \in TrainerNames, trigger_word \in {char1_trigger, char2_trigger},
          lora_url \in LoraUrls, how \in TrainingOutcomes :
            TrainCharacter(character_name, trigger_word, lora_url, how)
    \/ \E character_name \in TrainerNames, generated \in BOOLEAN, saved_ok \in BOOLEAN :
            TestLora(character_name, generated, saved_ok)
    \/ SaveLoraConfig

SpecTrainer == InitTrainer /\ [][NextTrainer]_vars

\* lora_config.json before the script runs: absent, or left by an earlier
\* run
ConfigsBefore ==
    { [exists |-> FALSE],
      [exists |-> TRUE, content |-> (TobiasDunsmir :> FalEntry(TriggerTobias))] }

\* the script, lines 147-182: a trainer is made and the character names are
\* read; the first training is about to start
InitScript ==
    /\ trained_loras = EmptyDict
    /\ completed = <<>>
    /\ tpc = "train_1"
    /\ trainer_log = <<>>
    /\ config_file \in ConfigsBefore
    /\ characters \in {CharactersPlain, CharactersFull}
    /\ OnlyTrainer

\* the name and the trigger word the script uses for character k
script_name(k) ==
    IF k = 1 THEN characters["character_1"]["fantasy_name"]
    ELSE characters["character_2"]["fantasy_name"]

script_trigger(k) == IF k = 1 THEN char1_trigger ELSE char2_trigger

\* the script where a failure of character 1 is passed over like one of
\* character 2
after_failure_goes_on(k) == IF k = 1 THEN "train_2" ELSE "save"

\* where the script goes when the try block of character k raises: exit(1)
\* for character 1 (line 198), the save for character 2
after_failure(k) == IF k = 1 THEN "exit_1" ELSE "save"

\* lines 185-189 and 206-210: train_character_lora for character k
ScriptTrain(k, lora_url, how) ==
    /\ tpc = (IF k = 1 THEN "train_1" ELSE "train_2")
    /\ trained_loras' = train_character_lora(trained_loras, script_name(k),
                                             script_trigger(k), lora_url, how)
    /\ trainer_log' = Append(trainer_log,
                             [op |-> "train_character_lora",
                              character_name |-> script_name(k),
                              zip_exists |-> how # "no_zip",
                              raised |-> how # "ok",
                              requests |-> training_requests(how)])
    /\ completed' = IF how = "ok"
                    THEN Append(completed,
                                [character_name |-> script_name(k),
                                 trigger_word |-> script_trigger(k),
                                 lora_url |-> lora_url])
                    ELSE completed
    /\ tpc' = IF how = "ok"
              THEN (IF k = 1 THEN "test_1" ELSE "test_2")
              ELSE after_failure(k)
    /\ UNCHANGED config_file
    /\ UNCHANGED trainer_frame

\* lines 193 and 214: test_lora for character k
ScriptTest(k, generated, saved_ok) ==
    /\ tpc = (IF k = 1 THEN "test_1" ELSE "test_2")
    /\ trainer_log' = Append(trainer_log,
                             [op |-> "test_lora",
                              character_name |-> script_name(k),
                              raised |-> \/ test_lora_raises_unknown(trained_loras, script_name(k))
                                         \/ ~generated
                                         \/ ~saved_ok,
                              requests |-> test_requests(trained_loras, script_name(k), generated)])
    /\ tpc' = IF trainer_log'[Len(trainer_log')].raised
              THEN after_failure(k)
              ELSE (IF k = 1 THEN "train_2" ELSE "save")
    /\ UNCHANGED <<trained_loras, completed, config_file>>
    /\ UNCHANGED trainer_frame

\* line 221: save_lora_config writes the registry, or the write raises and
\* the script ends with the traceback
ScriptSave(ok) ==
    /\ tpc = "save"
    /\ IF ok
       THEN /\ config_file' = [exists |-> TRUE, content |-> trained_loras]
            /\ tpc' = "done"
       ELSE /\ config_file' = [exists |-> TRUE, content |-> Truncated]
            /\ tpc' = "crashed"
    /\ trainer_log' = Append(trainer_log,
                             [op |-> "save_lora_config",
                              character_name |-> <<>>,
                              raised |-> ~ok,
                              requests |-> <<>>])
    /\ UNCHANGED <<trained_loras, completed>>
    /\ UNCHANGED trainer_frame

NextScript ==
    \/ \E k \in {1, 2}, lora_url \in LoraUrls, how \in TrainingOutcomes :
            ScriptTrain(k, lora_url, how)
    \/ \E k \in {1, 2}, generated \in BOOLEAN, saved_ok \in BOOLEAN :
            ScriptTest(k, generated, saved_ok)
    \/ \E ok \in BOOLEAN : ScriptSave(ok)

SpecScript == InitScript /\ [][NextScript]_vars

\* ------------------------------------------------------------------------
\* Properties
\* ------------------------------------------------------------------------

\* 'low quality, blurry, extra people, watermark, text, deformed, bad anatomy, multiple faces, distorted perspective'
TestNegativePrompt ==
    <<"l", "o", "w", " ", "q", "u", "a", "l", "i", "t", "y", ",", " ", "b",
      "l", "u", "r", "r", "y", ",", " ", "e", "x", "t", "r", "a", " ", "p",
      "e", "o", "p", "l", "e", ",", " ", "w", "a", "t", "e", "r", "m", "a",
      "r", "k", ",", " ", "t", "e", "x", "t", ",", " ", "d", "e", "f", "o",
      "r", "m", "e", "d", ",", " ", "b", "a", "d", " ", "a", "n", "a", "t",
      "o", "m", "y", ",", " ", "m", "u", "l", "t", "i", "p", "l", "e", " ",
      "f", "a", "c", "e", "s", ",", " ", "d", "i", "s", "t", "o", "r", "t",
      "e", "d", " ", "p", "e", "r", "s", "p", "e", "c", "t", "i", "v", "e">>

\* 'Tobias Dunsmir on the left, Olive Elmmist on the right'
ExpectedPositioningC4 ==
    <<"T", "o", "b", "i", "a", "s", " ", "D", "u", "n", "s", "m", "i", "r",
      " ", "o", "n", " ", "t", "h", "e", " ", "l", "e", "f", "t", ",", " ",
      "O", "l", "i", "v", "e", " ", "E", "l", "m", "m", "i", "s", "t", " ",
      "o", "n", " ", "t", "h", "e", " ", "r", "i", "g", "h", "t">>

\* 'tobias_dunsmir'
SynthTriggerTobias ==
    <<"t", "o", "b", "i", "a", "s", "_", "d", "u", "n", "s", "m", "i", "r">>

\* 'TobiasDunsmir.safetensors'
SynthFileTobias ==
    <<"T", "o", "b", "i", "a", "s", "D", "u", "n", "s", "m", "i", "r", ".",
      "s", "a", "f", "e", "t", "e", "n", "s", "o", "r", "s">>

\* 'olive_elmmist'
SynthTriggerOlive ==
    <<"o", "l", "i", "v", "e", "_", "e", "l", "m", "m", "i", "s", "t">>

\* 'OliveElmmist.safetensors'
SynthFileOlive ==
    <<"O", "l", "i", "v", "e", "E", "l", "m", "m", "i", "s", "t", ".", "s",
      "a", "f", "e", "t", "e", "n", "s", "o", "r", "s">>

\* '<lora:TobiasDunsmir:0.8> tobias_dunsmir'
SynthPrefixTobias ==
    <<"<", "l", "o", "r", "a", ":", "T", "o", "b", "i", "a", "s", "D", "u",
      "n", "s", "m", "i", "r", ":", "0", ".", "8", ">", " ", "t", "o", "b",
      "i", "a", "s", "_", "d", "u", "n", "s", "m", "i", "r">>

\* '<lora:OliveElmmist:0.75> olive_elmmist'
SynthPrefixOlive ==
    <<"<", "l", "o", "r", "a", ":", "O", "l", "i", "v", "e", "E", "l", "m",
      "m", "i", "s", "t", ":", "0", ".", "7", "5", ">", " ", "o", "l", "i",
      "v", "e", "_", "e", "l", "m", "m", "i", "s", "t">>


char1_name_now == characters["character_1"]["fantasy_name"]

char2_name_now == characters["character_2"]["fantasy_name"]

\* the scene description of the page given to build_page_prompts
page_scene == Get(page_data, "scene_description", <<>>)

\* the scene description handed to the extractors
parser_scene == scene_desc_of(page_data, char1_name_now, char2_name_now)

\* C1: whenever build_page_prompts returns a bundle, both characters have an
\* adapter registration (an unregistered character makes the call raise).
C1_RaisesWhenUnregistered ==
    outcome = "returned" =>
        /\ char1_name_now \in DOMAIN loras
        /\ char2_name_now \in DOMAIN loras

FullyRegistered(name) ==
    /\ name \in DOMAIN loras
    /\ {"trigger_word", "lora_filename", "default_strength"} \subseteq DOMAIN loras[name]

\* "<lora:F:S> trigger" for a registered character, F the registered file
\* name without its extension
RegisteredHead(name) ==
    LET entry == loras[name]
        dot == RFind(entry.lora_filename, ".")
        stem == IF dot > 0 THEN SliceTo(entry.lora_filename, dot)
                ELSE entry.lora_filename
    IN  LORA_OPEN \o stem \o <<":">> \o FormatFloat(entry.default_strength)
        \o <<">", " ">> \o entry.trigger_word

\* C2: each character prompt of a registered character is non-empty and
\* starts with the adapter tag, one space and the registered trigger word.
C2_PromptStartsWithTagAndTrigger ==
    outcome = "returned" =>
        /\ FullyRegistered(char1_name_now) =>
            /\ bundle.character_1_prompt # <<>>
            /\ StartsWith(bundle.character_1_prompt, RegisteredHead(char1_name_now))
        /\ FullyRegistered(char2_name_now) =>
            /\ bundle.character_2_prompt # <<>>
            /\ StartsWith(bundle.character_2_prompt, RegisteredHead(char2_name_now))

\* a page was built from a registration file that registers both characters
C2_Witness ==
    /\ outcome = "returned"
    /\ lora_config_file.exists
    /\ FullyRegistered(char1_name_now)
    /\ FullyRegistered(char2_name_now)
    /\ page_scene # <<>>

\* a part as the claim appends it: nothing when empty, else ", part"
Introduced(part) == IF part = <<>> THEN <<>> ELSE COMMA_SPACE \o part

visual_cue(character_key, field) ==
    _extract_outfit_colors(
        Get(Get(characters[character_key], "visual_design", EmptyDict), field, <<>>))

\* C3: after the trigger word the character prompt consists of the non-empty
\* parts among action, outfit cue and extra keywords, each introduced by ", ".
C3_PartsIntroducedByComma ==
    outcome = "returned" =>
        /\ EndsWith(bundle.character_1_prompt,
                    Get(Get(loras, char1_name_now, EmptyDict), "trigger_word",
                        Replace(Lower(char1_name_now), <<" ">>, <<"_">>))
                    \o Introduced(parsed.char1_action)
                    \o Introduced(visual_cue("character_1", "prompt_palette"))
                    \o Introduced(visual_cue("character_1", "prompt_keywords")))
        /\ EndsWith(bundle.character_2_prompt,
                    Get(Get(loras, char2_name_now, EmptyDict), "trigger_word",
                        Replace(Lower(char2_name_now), <<" ">>, <<"_">>))
                    \o Introduced(parsed.char2_action)
                    \o Introduced(visual_cue("character_2", "prompt_palette"))
                    \o Introduced(visual_cue("character_2", "prompt_keywords")))

\* C4: for "Olive Elmmist, on the right, kneels. Tobias Dunsmir stands on the
\* left, scowling." Olive Elmmist is placed on the right and Tobias Dunsmir on
\* the left.
C4_OliveRightTobiasLeft ==
    (/\ outcome = "returned"
     /\ page_scene = SceneOf(<<SentOliveRight, SentTobiasLeft>>, TRUE))
    => parsed.positioning = ExpectedPositioningC4

PositionKeywords == {ON_THE_LEFT, ON_THE_RIGHT, CENTER, FOREGROUND, BACKGROUND}

NoPositionKeyword(scene) ==
    \A keyword \in PositionKeywords : ~Contains(keyword, Lower(scene))

EveryPieceIsCharacterOnly(scene) ==
    LET pieces == Split(scene, ".")
    IN  \A i \in 1..Len(pieces) :
            /\ has_character(Lower(pieces[i]), char1_name_now, char2_name_now)
            /\ ~has_setting(Lower(pieces[i]))

C7_SamePageSameBundle ==
    (first_call # None /\ page_data = first_call.page_data) =>
        /\ outcome = first_call.outcome
        /\ bundle = first_call.bundle

\* the third call of a run repeats the page of the first call
C7_Witness ==
    /\ calls = 3
    /\ first_call # None
    /\ page_data = first_call.page_data
    /\ outcome = "returned"
    /\ lora_config_file.exists
    /\ loras # EmptyDict

\* C8: the negative prompt of every bundle is the fixed string, as the test
\* script spells it.
C8_NegativePromptConstant ==
    outcome = "returned" => bundle.negative_prompt = TestNegativePrompt

\* a bundle was built for a page with a scene and registered adapters
C8_Witness ==
    /\ outcome = "returned"
    /\ page_scene = SceneOf(<<SentTobiasLeft, SentForest>>, TRUE)
    /\ loras # EmptyDict

\* C9: without the registration file the registry holds, for each character,
\* the lower-cased underscore-joined trigger word, the space-free file name
\* plus ".safetensors" and the strength 0.8 / 0.75, and the prompts start
\* with exactly these values.
C9_SynthesizedRegistry ==
    (gen_class = "none" /\ ~lora_config_file.exists) =>
        /\ loras =
             (OliveElmmist :>
                [trigger_word |-> SynthTriggerOlive,
                 lora_filename |-> SynthFileOlive,
                 default_strength |-> 75])
             @@
             (TobiasDunsmir :>
                [trigger_word |-> SynthTriggerTobias,
                 lora_filename |-> SynthFileTobias,
                 default_strength |-> 80])
        /\ outcome = "returned" =>
            /\ StartsWith(bundle.character_1_prompt, SynthPrefixTobias \o <<" ">>)
            /\ StartsWith(bundle.character_2_prompt, SynthPrefixOlive \o <<" ">>)

\* a page was built by a generator whose registration file was missing
C9_Witness ==
    /\ gen_class = "none"
    /\ ~lora_config_file.exists
    /\ outcome = "returned"
    /\ page_scene # <<>>

\* the run's result: one entry per page in page order, written to the
\* pages' image_path, null exactly for the pages whose generation raised,
\* and every page attempted
RunRecordsEveryPage ==
    /\ Len(result) = Len(story_file)
    /\ attempted = 1..Len(story_file)
    /\ \A i \in 1..Len(story_file) :
        /\ "image_path" \in DOMAIN story_file[i]
        /\ story_file[i].image_path = result[i]
        /\ (result[i] = NullPath) <=> (i \in failed)
        /\ result[i] # NullPath => result[i] = output_path(story_file[i].page)

\* C10 as stated: every finished run of generate_all_story_images records
\* every page.
C10_EveryRunRecordsEveryPage ==
    pc = "done" => RunRecordsEveryPage

\* C10 amended: a finished run records every page, unless it is a run of
\* LoRAImageGenerator with no adapter configuration (self.loras None or
\* empty), which returns an empty list at once.
C10_LoadedRunRecordsEveryPage ==
    (pc = "done" /\ ~(gen_class = "LoRAImageGenerator" /\ Falsy(loras)))
        => RunRecordsEveryPage

\* a run of two pages has finished in which page 1 failed and page 2 did not
C10_Witness ==
    /\ pc = "done"
    /\ Len(result) = 2
    /\ 1 \in failed
    /\ 2 \notin failed

\* the document f is the story the run began with, with an image_path on
\* every page
FullyUpdated(f) ==
    /\ f # Truncated
    /\ Len(f) = Len(file_at_start)
    /\ \A i \in 1..Len(f) :
        /\ "image_path" \in DOMAIN f[i]
        /\ \A k \in DOMAIN file_at_start[i] \ {"image_path"} :
            k \in DOMAIN f[i] /\ f[i][k] = file_at_start[i][k]

\* C11: at every point of a run of generate_all_story_images, aborted runs
\* included, the story file holds the story it held at the start or that
\* story with image_path set on every page.
C11_FileOriginalOrFullyUpdated ==
    gen_class # "none" =>
        \/ story_file = file_at_start
        \/ FullyUpdated(story_file)

\* C13: when a registry file an image generator needs is absent, no
\* generation work is started: without the characters file no generator
\* object comes to exist, and without an adapter configuration no remote
\* request is issued, no page is attempted and the story file stays as it
\* was; LoRAImageGenerator.generate_all_story_images then returns [].
C13_NoWorkWithoutRegistry ==
    /\ (gen_class # "none" /\ ~characters_file.exists) =>
            /\ pc \in {"new", "init_raised"}
            /\ requests = 0
            /\ story_file = file_at_start
    /\ (gen_class # "none" /\ ~lora_config_file.exists) =>
            /\ requests = 0
            /\ attempted = {}
            /\ story_file = file_at_start
    /\ (gen_class = "LoRAImageGenerator" /\ pc \notin {"new", "init_raised"}
        /\ Falsy(loras)) =>
            /\ requests = 0
            /\ attempted = {}
            /\ story_file = file_at_start
            /\ pc \in {"idle", "done", "regen_returned"}
            /\ pc = "done" => result = <<>>
            /\ pc = "regen_returned" => result = NullPath

\* a LoRAImageGenerator built without lora_config.json has returned from
\* generate_all_story_images on a story of two pages
C13_Witness ==
    /\ gen_class = "LoRAImageGenerator"
    /\ ~lora_config_file.exists
    /\ loras = None
    /\ pc = "done"
    /\ Len(story_file) = 2

\* C14: a ComfyUIImageGenerator with adapters loaded supports
\* generate_all_story_images: the call does not fail on the method lookup,
\* and when it is over the returned list has one entry per page.
C14_ComfySupportsGenerateAll ==
    (gen_class = "ComfyUIImageGenerator" /\ ~Falsy(loras)
     /\ pc \notin {"new", "init_raised", "idle"})
    => /\ pc # "attribute_error"
       /\ pc = "done" => Len(result) = Len(story_file)

\* the fields build_page_prompts returns
PromptFields ==
    {"character_1_prompt", "character_2_prompt", "scene_prompt", "negative_prompt"}

\* C12: every page generate_story_gemini returns carries the four prompt
\* fields with the values build_page_prompts returned for it, its other
\* fields are as the model response had them, save_story is given only such
\* pages, and the pages read back from the saved file equal the pages saved.
C12_PromptsAttachedAndReread ==
    /\ gpc \in {"returned", "saved", "reread"} =>
        /\ Len(built) = Len(story_pages)
        /\ \A i \in 1..Len(story_pages) :
            /\ PromptFields \subseteq DOMAIN story_pages[i]
            /\ \A f \in PromptFields : story_pages[i][f] = built[i].bundle[f]
            /\ DOMAIN story_pages[i] = DOMAIN built[i].page_data \cup PromptFields
            /\ \A k \in DOMAIN built[i].page_data \ PromptFields :
                story_pages[i][k] = built[i].page_data[k]
    /\ gpc = "reread" => reread = story_pages

\* a story of two pages, with quotes, a backslash, a newline, a non-ASCII
\* character and a stale prompt field, has been saved and read back
C12_Witness ==
    /\ gpc = "reread"
    /\ Len(story_pages) = 2
    /\ built[1].page_data.page = 1
    /\ built[2].page_data.page = 12
    /\ Contains(<<"\"">>, story_pages[1].character_2_prompt)
    /\ Contains(<<"\\">>, story_pages[1].character_1_prompt)

\* C15: with invocations of build_page_prompts interleaved, the registries
\* stay as they were loaded, no page record is modified, and every
\* invocation returns (or raises) what a call on its own would: the bundle
\* of its page under the loaded registries.
C15_InterleavingIsSequential ==
    threads # <<>> =>
        /\ characters = characters_file.content
        /\ loras = load_lora_config(lora_config_file, characters)
        /\ \A t \in DOMAIN threads :
            /\ threads[t].page_data = threads[t].given
            /\ threads[t].pc = "raised" => build_raises(characters)
            /\ threads[t].pc = "returned" =>
                /\ ~build_raises(characters)
                /\ threads[t].bundle =
                     prompts_of(characters, loras,
                                parsed_of(characters, threads[t].given))

\* two invocations for different pages have both returned after running
\* interleaved, on a generator with a registration file
C15_Witness ==
    /\ threads # <<>>
    /\ \A t \in DOMAIN threads : threads[t].pc = "returned"
    /\ \A t \in DOMAIN threads : threads[t].overlapped
    /\ threads[1].given # threads[2].given
    /\ lora_config_file.exists
    /\ loras # EmptyDict

\* the text _extract_character_action is given: lower-cased scene
\* description, a space, lower-cased page text
combined_text ==
    Lower(parser_scene) \o <<" ">> \o Lower(Get(page_data, "text", <<>>))

\* the sentences of the combined text that mention the character
Mentioning(name) ==
    SelectSeq(Split(combined_text, "."),
              LAMBDA sentence : Contains(Lower(name), Lower(sentence)))

\* C16: the action phrase of a character does not contain the character's
\* name (in the letter case of the text it was taken from): the name is
\* taken out of every sentence that mentions the character.
C16_ActionOmitsName ==
    outcome = "returned" =>
        /\ ~Contains(Lower(char1_name_now), Lower(parsed.char1_action))
        /\ ~Contains(Lower(char2_name_now), Lower(parsed.char2_action))

\* what the sentences that mention the character leave after stripping, as
\* far as it is usable: longer than MinActionLen characters
UsableFragments(name) ==
    SelectSeq(CleanAll(Mentioning(name), name, 1, <<>>),
              LAMBDA fragment : Len(fragment) > MinActionLen)

\* at most two fragments, the first ones, joined by ", "; the fallback when
\* there is none
ExpectedAction(name) ==
    LET usable == UsableFragments(name)
    IN  IF usable = <<>> THEN STANDING_CONFIDENTLY
        ELSE IF Len(usable) = 1 THEN usable[1]
        ELSE usable[1] \o COMMA_SPACE \o usable[2]

\* what the sentences that mention the character leave once the name is
\* taken out of them, as far as it is usable
UsableWithoutName(name) ==
    SelectSeq(CleanAll(Mentioning(name), Lower(name), 1, <<>>),
              LAMBDA fragment : Len(fragment) > MinActionLen)

\* C17: the action phrase of a character is the first usable fragment, or
\* the first two joined by ", ", of the sentences that mention the
\* character, and it is 'standing confidently' when no sentence mentions
\* the character or every such sentence leaves nothing usable once the name
\* is stripped from it.
C17_TwoFragmentsOrFallback ==
    outcome = "returned" =>
        /\ parsed.char1_action = ExpectedAction(char1_name_now)
        /\ parsed.char2_action = ExpectedAction(char2_name_now)
        /\ UsableWithoutName(char1_name_now) = <<>>
            => parsed.char1_action = STANDING_CONFIDENTLY
        /\ UsableWithoutName(char2_name_now) = <<>>
            => parsed.char2_action = STANDING_CONFIDENTLY

\* the phrase assigned for each position keyword
PhraseOf(keyword) ==
    CASE keyword = ON_THE_LEFT -> ON_THE_LEFT
      [] keyword = ON_THE_RIGHT -> ON_THE_RIGHT
      [] keyword = CENTER -> IN_THE_CENTER
      [] keyword = FOREGROUND -> IN_THE_FOREGROUND
      [] keyword = BACKGROUND -> IN_THE_BACKGROUND

\* the priority of a position keyword: left/right, center, foreground,
\* background
Priority(keyword) ==
    CASE keyword \in {ON_THE_LEFT, ON_THE_RIGHT} -> 1
      [] keyword = CENTER -> 2
      [] keyword = FOREGROUND -> 3
      [] keyword = BACKGROUND -> 4

\* the position of the first character in the positioning string
\* "{name1} {pos1}, {name2} {pos2}"
AssignedPosition1 ==
    Slice(parsed.positioning, Len(char1_name_now) + 1,
          Find(parsed.positioning, COMMA_SPACE \o char2_name_now \o <<" ">>))

\* the position of the second character in the positioning string
AssignedPosition2 ==
    LET lead == COMMA_SPACE \o char2_name_now \o <<" ">>
    IN  Slice(parsed.positioning, Find(parsed.positioning, lead) + Len(lead),
              Len(parsed.positioning))

\* the keyword qualifies for the character: it occurs in the scene
\* description and the name occurs before the end of its window
Qualifies(keyword, name) ==
    KeywordNearName(Lower(parser_scene), keyword, Lower(name))

\* the position is that of a qualifying keyword of the best priority among
\* the qualifying ones
FirstQualifying(position, name) ==
    (\E keyword \in PositionKeywords : Qualifies(keyword, name)) =>
        \E keyword \in PositionKeywords :
            /\ Qualifies(keyword, name)
            /\ position = PhraseOf(keyword)
            /\ \A other \in PositionKeywords :
                Qualifies(other, name) => Priority(keyword) <= Priority(other)

\* C18: when position keywords qualify for a character, the position
\* assigned is that of a qualifying keyword of the highest priority among
\* them, in the order left/right, center, foreground, background.
C18_FirstQualifyingKeywordWins ==
    outcome = "returned" =>
        /\ FirstQualifying(AssignedPosition1, char1_name_now)
        /\ FirstQualifying(AssignedPosition2, char2_name_now)

\* 'on the left' and 'background' both qualify for the first character,
\* who is placed on the left
C18_Witness ==
    /\ outcome = "returned"
    /\ Qualifies(ON_THE_LEFT, char1_name_now)
    /\ Qualifies(BACKGROUND, char1_name_now)
    /\ AssignedPosition1 = ON_THE_LEFT

\* the phrases of the five position tags
PositionPhrases ==
    {ON_THE_LEFT, ON_THE_RIGHT, IN_THE_CENTER, IN_THE_FOREGROUND, IN_THE_BACKGROUND}

\* C19: the positioning string is "{Name1} {pos1}, {Name2} {pos2}" where
\* pos1 and pos2 are each the phrase of exactly one of the tags left, right,
\* center, foreground, background.
C19_PositionsFromVocabulary ==
    outcome = "returned" =>
        \E pos1 \in PositionPhrases, pos2 \in PositionPhrases :
            parsed.positioning =
                char1_name_now \o <<" ">> \o pos1 \o COMMA_SPACE \o
                char2_name_now \o <<" ">> \o pos2

\* the first character is placed by a keyword and the second by default
C19_Witness ==
    /\ outcome = "returned"
    /\ page_scene = SceneOf(<<SentTobiasBackground>>, TRUE)
    /\ AssignedPosition1 = IN_THE_BACKGROUND
    /\ AssignedPosition2 = ON_THE_LEFT

\* ' armor', the suffix of an armor cue
ARMOR ==
    <<" ", "a", "r", "m", "o", "r">>

\* 'armor', the word that asks for it
ARMOR_WORD ==
    <<"a", "r", "m", "o", "r">>

\* the palette words that occur in the text, in palette order
FoundColors(text) ==
    SelectSeq(colors, LAMBDA color : Contains(color, Lower(text)))

\* the suffix the keyword context asks for: 'armor' when the text speaks of
\* armor, else 'clothing'
SuffixFor(text) ==
    IF Contains(ARMOR_WORD, Lower(text)) THEN ARMOR ELSE CLOTHING

\* the outfit cue of the claim for a scanned text
ExpectedCue(text) ==
    IF FoundColors(text) = <<>> THEN <<>>
    ELSE Join(COMMA_SPACE, FoundColors(text)) \o SuffixFor(text)

\* the text scanned for a character's outfit cue
palette_text(character_key) ==
    Get(Get(characters[character_key], "visual_design", EmptyDict),
        "prompt_palette", <<>>)

\* C20: the outfit cue is empty exactly when no palette word occurs in the
\* scanned text, else the found words joined and followed by 'clothing', or
\* by 'armor' when the text speaks of armor; the character prompt carries
\* the cue exactly when it is not empty.
C20_OutfitCueSuffixByContext ==
    outcome = "returned" =>
        /\ Contains(ExpectedCue(palette_text("character_1")), bundle.character_1_prompt)
        /\ Contains(ExpectedCue(palette_text("character_2")), bundle.character_2_prompt)
        /\ (FoundColors(palette_text("character_1")) = <<>>)
            <=> ~Contains(CLOTHING, bundle.character_1_prompt)
        /\ (FoundColors(palette_text("character_2")) = <<>>)
            <=> ~(Contains(CLOTHING, bundle.character_2_prompt)
                  \/ Contains(ARMOR, bundle.character_2_prompt))

\* the sentences of the scene description that environment extraction
\* keeps: those with a setting keyword or without a character name, stripped,
\* the empty pieces that Split leaves around full stops not counted
KeptSentences ==
    SelectSeq(StripAll(Split(parser_scene, "."), 1, <<>>),
              LAMBDA sentence :
                  /\ sentence # <<>>
                  /\ \/ has_setting(Lower(sentence))
                     \/ ~has_character(Lower(sentence), char1_name_now, char2_name_now))

\* the prompt built for a character
character_prompt(character_key) ==
    IF character_key = "character_1"
    THEN bundle.character_1_prompt
    ELSE bundle.character_2_prompt

\* the outfit cue is a match: the palette words found, joined, with the
\* suffix; or it is the default: nothing
OutfitMatchOrDefault(character_key) ==
    IF FoundColors(palette_text(character_key)) = <<>>
    THEN ~Contains(CLOTHING, character_prompt(character_key))
    ELSE Contains(Join(COMMA_SPACE, FoundColors(palette_text(character_key))) \o CLOTHING,
                  character_prompt(character_key))

\* C21: the heuristic extraction never raises (a call raises only for a
\* character record without a name, before any extraction), and for every
\* page record the action, the position, the outfit cue and the environment
\* are each a match or the documented default: 'standing confidently', the
\* default positions, no cue, and 'fantasy illustration, cinematic lighting,
\* high detail' when no sentence of the description is kept.
C21_ExtractionMatchOrDefault ==
    /\ outcome = "raised" => build_raises(characters)
    /\ outcome = "returned" =>
        /\ parsed.char1_action = ExpectedAction(char1_name_now)
        /\ parsed.char2_action = ExpectedAction(char2_name_now)
        /\ AssignedPosition1 \in PositionPhrases
        /\ AssignedPosition2 \in PositionPhrases
        /\ OutfitMatchOrDefault("character_1")
        /\ OutfitMatchOrDefault("character_2")
        /\ IF KeptSentences = <<>>
           THEN parsed.environment_desc = ENV_FALLBACK
           ELSE parsed.environment_desc # <<>>

\* C22: every scene prompt is the environment description (when it is not
\* empty), the positioning string and the style suffix, in this order and
\* joined by ", "; so it ends with 'cinematic lighting, fantasy
\* illustration, high detail' and contains both character names.
C22_ScenePromptComposition ==
    outcome = "returned" =>
        /\ bundle.scene_prompt =
            (IF parsed.environment_desc = <<>> THEN <<>>
             ELSE parsed.environment_desc \o COMMA_SPACE)
            \o parsed.positioning \o COMMA_SPACE \o STYLE_SUFFIX
        /\ parsed.positioning =
            char1_name_now \o <<" ">> \o AssignedPosition1 \o COMMA_SPACE \o
            char2_name_now \o <<" ">> \o AssignedPosition2
        /\ EndsWith(bundle.scene_prompt, STYLE_SUFFIX)
        /\ Contains(char1_name_now, bundle.scene_prompt)
        /\ Contains(char2_name_now, bundle.scene_prompt)

\* a scene prompt with all three parts: an environment sentence, a position
\* taken from a keyword, the suffix
C22_Witness ==
    /\ outcome = "returned"
    /\ page_scene = SceneOf(<<SentForest, SentTobiasLeft>>, FALSE)
    /\ parsed.environment_desc = SentForest
    /\ AssignedPosition1 = ON_THE_LEFT
    /\ Len(bundle.scene_prompt) >
         Len(parsed.environment_desc) + Len(parsed.positioning) + Len(STYLE_SUFFIX)

\* an image generator was constructed from a characters file that names both
\* characters, and one of them has no adapter registration
Unregistered ==
    /\ gen_class \in ImageGenerators \ {"ComfyUIImageGenerator"}
    /\ pc \notin {"new", "init_raised"}
    /\ ~build_raises(characters)
    /\ \/ Falsy(loras)
       \/ Falsy(GetOrNone(loras, char1_name_now))
       \/ Falsy(GetOrNone(loras, char2_name_now))

\* every page the loop has gone through was recorded as failed, and the loop
\* goes through every page: the list returned has a null entry for each
EveryPageReportedFailed ==
    /\ pc = "loop" => failed = attempted
    /\ pc \in {"write", "dump", "return", "done"} =>
            /\ attempted = 1..Len(story_data)
            /\ failed = attempted
    /\ pc = "done" => result = [i \in 1..Len(story_data) |-> NullPath]

\* C23: when a character has no adapter registration, generating a page
\* raises before any remote request, and generate_all_story_images records
\* the failure for that page and goes on with the remaining pages.
C23_UnregisteredFailsEveryPage ==
    Unregistered =>
        /\ requests = 0
        /\ EveryPageReportedFailed

\* the requests a page of the Split generator may issue before it finds a
\* character unregistered: the scene split, and for the second character
\* also the request and the download of the first character's image
RequestsBeforeMissing ==
    IF Falsy(GetOrNone(loras, char1_name_now)) THEN 1 ELSE 3

\* C23 amended: LoRAImageGenerator and DualLoRAImageGenerator raise before
\* any request of the page; SplitSceneImageGenerator raises before the
\* generation request of the unregistered character, after the scene split
\* and, for the second character, after the first character's image.  Every
\* page is recorded as failed and the loop goes through all pages, except
\* that LoRAImageGenerator with no registration at all returns an empty list
\* before it looks at any page.
C23_UnregisteredFailsBeforeItsRequest ==
    Unregistered =>
        IF gen_class = "LoRAImageGenerator" /\ Falsy(loras)
        THEN /\ requests = 0
             /\ attempted = {}
             /\ pc = "done" => result = <<>>
        ELSE /\ EveryPageReportedFailed
             /\ gen_class # "SplitSceneImageGenerator" => requests = 0
             /\ gen_class = "SplitSceneImageGenerator" =>
                    requests <= RequestsBeforeMissing * Cardinality(attempted)

\* a run over two pages with only the first character registered ended: both
\* pages failed without a request
C23_Witness ==
    /\ Unregistered
    /\ ~Falsy(loras)
    /\ pc = "done"
    /\ Len(result) = 2
    /\ failed = {1, 2}
    /\ requests = 0

\* ------------------------------------------------------------------------
\* Properties of the ComfyUI page pipeline
\* ------------------------------------------------------------------------

\* wait_for_completion is running
Waiting == cpc \in {"wait", "poll", "sleep"}

\* wait_for_completion has returned an entry
WaitReturned == cpc \in {"scan", "download", "returned"}

\* what wait_for_completion returned is the entry of the requested
\* prompt_id in the last answer, and that entry reports completed
ReturnedCompletedEntry ==
    WaitReturned =>
        /\ response # Raises
        /\ response.status_code = 200
        /\ response.json # Raises
        /\ prompt_id \in DOMAIN response.json
        /\ history = response.json[prompt_id]
        /\ "status" \in DOMAIN history
        /\ "completed" \in DOMAIN history.status
        /\ history.status.completed = TRUE

\* a poll that does not find the completed entry goes on to the sleep and
\* from there to the next test of the clock; the wait raises only from that
\* test, when the timeout has passed
FailedPollGoesOn ==
    /\ cpc = "poll" /\ ~WaitReturned' => cpc' = "sleep"
    /\ cpc = "sleep" => cpc' = "wait"
    /\ cpc = "wait" => cpc' = IF elapsed < WaitTimeout THEN "poll" ELSE "raised"
    /\ Waiting /\ cpc' = "raised" => elapsed >= WaitTimeout

C24_TimeoutWitness ==
    /\ cpc = "raised"
    /\ elapsed >= WaitTimeout
    /\ Len(steps) >= 3
    /\ steps[Len(steps)] = "poll"

\* the steps that are downloads
IsDownload(step) == step \notin {"prepare", "queue", "poll"}

\* the steps of one page are: prepare, then at most one queue, then polls,
\* then at most one download, which follows a poll
StepsInOrder ==
    /\ cpc # "idle" => Len(steps) >= 1 /\ steps[1] = "prepare"
    /\ \A i \in 2..Len(steps) :
        /\ steps[i] # "prepare"
        /\ steps[i] = "queue" <=> i = 2
        /\ IsDownload(steps[i]) => i = Len(steps) /\ steps[i - 1] = "poll"

\* the file name of the first image of the outputs, in the order of the
\* nodes and of the images of a node
ExpectedFirstImage ==
    LET outputs == history.outputs
        first_node == CHOOSE i \in 1..Len(outputs) :
            /\ "images" \in DOMAIN outputs[i].output
            /\ outputs[i].output.images # <<>>
            /\ \A k \in 1..(i - 1) :
                \/ "images" \notin DOMAIN outputs[k].output
                \/ outputs[k].output.images = <<>>
    IN  outputs[first_node].output.images[1].filename

\* a download was attempted only for a job reported completed, and for its
\* first image
DownloadAfterCompletion ==
    (steps # <<>> /\ IsDownload(steps[Len(steps)])) =>
        /\ Completed(history)
        /\ steps[Len(steps)] = "download " \o ExpectedFirstImage

\* a path is what the call returned, after the download
PathAfterDownload ==
    /\ cpc = "returned" <=> comfy_result # NullPath
    /\ cpc = "returned" =>
        /\ comfy_result = output_path(comfy_page)
        /\ IsDownload(steps[Len(steps)])

\* a completed job without an image
NoImageOutput ==
    /\ cpc = "scan"
    /\ \/ "outputs" \notin DOMAIN history
       \/ \A i \in 1..Len(history.outputs) :
            \/ "images" \notin DOMAIN history.outputs[i].output
            \/ history.outputs[i].output.images = <<>>

\* the download starts only from the scan of a completed job; a scan that
\* finds no image raises; a failed download raises
ScanThenDownload ==
    /\ cpc' = "download" /\ cpc # "download" => cpc = "scan" /\ ~NoImageOutput
    /\ NoImageOutput => cpc' = "raised" /\ comfy_result' = NullPath
    /\ cpc = "download" /\ cpc' # "returned" => cpc' = "raised" /\ comfy_result' = NullPath

\* C25: the steps of generate_story_image occur in the order prepare, queue
\* (once), wait, download; no download is attempted before the job is
\* reported completed; a path is returned only after the first image of the
\* outputs was downloaded; a completed job without an image raises.
C25_PipelineOrder ==
    /\ [](StepsInOrder /\ DownloadAfterCompletion /\ PathAfterDownload)
    /\ [][ScanThenDownload]_vars

\* A page was returned after a download of the first of two images, which
\* followed a node without images.
C25_Witness ==
    /\ cpc = "returned"
    /\ steps = <<"prepare", "queue", "poll", "poll", "download b.png">>
    /\ comfy_result = output_path(2)

\* A completed job without an image ended in an error.
C25_NoImageWitness ==
    /\ cpc = "raised"
    /\ steps # <<>>
    /\ steps[Len(steps)] = "poll"
    /\ Completed(history)
    /\ "outputs" \in DOMAIN history
    /\ history.outputs = <<[node |-> "13", output |-> [images |-> <<>>]]>>

\* the workflow of the current page was prepared
Prepared == cpc = "queue" \/ Len(steps) >= 2

\* the strings of a workflow: the string leaves and the strings in lists
StringsOf(w) ==
    {w[k].str : k \in {k \in DOMAIN w : "str" \in DOMAIN w[k]}}
    \cup UNION {{w[k].list[i].str :
                    i \in {i \in 1..Len(w[k].list) : "str" \in DOMAIN w[k].list[i]}} :
                k \in {k \in DOMAIN w : "list" \in DOMAIN w[k]}}

\* no placeholder token occurs in the workflow
NoPlaceholderLeft(w) ==
    \A i \in 1..Len(Placeholders) :
        \A str \in StringsOf(w) : ~Contains(Placeholders[i], str)

\* the leaves of the template that hold a placeholder
PlaceholderLeaves ==
    {"ckpt_name_1", "lora_name_2", "lora_name_3", "text_4", "text_5", "text_6",
     "text_10", "seed_11", "filename_prefix_13"}

\* the stored template is the one built by the constructor, with its nine
\* placeholders
TemplateUntouched ==
    /\ workflow_template = create_workflow_template
    /\ \A i \in 1..Len(Placeholders) :
        \E k \in PlaceholderLeaves : workflow_template[k] = JStr(Placeholders[i])

\* the workflow holds the prompts of the current page, the adapter file
\* names of the two characters and the prefix of the page
FilledForPage ==
    LET prompts == build_character_prompts(page_data.scene_description)
        lora1 == loras[characters["character_1"]["fantasy_name"]]
        lora2 == loras[characters["character_2"]["fantasy_name"]]
    IN  /\ workflow.ckpt_name_1.str = BaseModel
        /\ workflow.lora_name_2.str = lora1["lora_filename"]
        /\ workflow.lora_name_3.str = lora2["lora_filename"]
        /\ workflow.text_4.str = OneLine(prompts.char1_prompt)
        /\ workflow.text_5.str = OneLine(prompts.char2_prompt)
        /\ workflow.text_6.str = OneLine(prompts.scene_prompt)
        /\ Contains(OneLine(page_data.scene_description), workflow.text_6.str)
        /\ workflow.text_10.str = ComfyNegative
        /\ workflow.seed_11.str \in Seeds
        /\ workflow.filename_prefix_13.str = filename_prefix(StoryId, page_data.page)
        /\ \A k \in DOMAIN workflow_template \ PlaceholderLeaves :
            workflow[k] = workflow_template[k]

Character1Steps == {"subscribe_1", "download_1"}

Character2Steps == {"subscribe_2", "download_2"}

\* this step ends the page of the for loop
PageEnds == pc \notin {"loop", "aborted"} /\ pc' = "loop"

\* this step writes the page file: the page ends with its path
PageFileWritten ==
    /\ Len(images') = Len(images) + 1
    /\ images'[Len(images')] # NullPath

\* one step of the Dual generator's page
SeparateMethodStep ==
    /\ pc' = "subscribe_1" => pc = "loop"
    /\ pc' = "download_1" => pc = "subscribe_1"
    /\ pc' = "subscribe_2" => pc = "download_1"
    /\ pc' = "download_2" => pc = "subscribe_2"
    /\ pc' = "composite" => pc = "download_2"
    /\ PageFileWritten =>
        /\ pc = "composite"
        /\ images'[Len(images')] = output_path(story_data[idx].page)
    /\ (pc \in Character1Steps \cup Character2Steps /\ PageEnds) =>
        /\ images' = Append(images, NullPath)
        /\ failed' = failed \cup {idx}

\* C27: in the Dual generator the image of character_1 is generated before
\* that of character_2, the composite page file is written only after both
\* generations succeeded, and a generation that fails ends the page without
\* a page file and with the error at the caller, which records the page as
\* failed.
C27_CharactersInOrderThenComposite ==
    [][gen_class = "DualLoRAImageGenerator" => SeparateMethodStep]_vars

\* The Dual generator wrote the first page after four requests (two
\* generations, two downloads) and failed on the second page in the
\* generation of character_2.
C27_Witness ==
    /\ gen_class = "DualLoRAImageGenerator"
    /\ pc = "loop"
    /\ idx = 3
    /\ images = <<output_path(story_data[1].page), NullPath>>
    /\ failed = {2}
    /\ requests = 7

\* regenerate_single_page has returned
Regenerated == pc = "regen_returned"

\* the story file with the image_path of page i set to path and nothing
\* else changed
WithImagePath(story, i, path) ==
    [k \in 1..Len(story) |->
        IF k = i
        THEN [f \in DOMAIN story[k] \cup {"image_path"} |->
                IF f = "image_path" THEN path ELSE story[k][f]]
        ELSE story[k]]

\* C26: regenerate_single_page changes the story file only on success and
\* then only the image_path of the page with the requested number; when the
\* page does not exist or the call returns None for any failure, the file is
\* exactly as it was.
C26_FileChangedOnlyOnSuccess ==
    Regenerated =>
        IF result = NullPath
        THEN story_file = file_at_start
        ELSE /\ idx = FindPage(file_at_start, page_number)
             /\ idx # 0
             /\ result = output_path(page_number)
             /\ story_file = WithImagePath(file_at_start, idx, result)

\* The same up to the write: the file is as it was when the page is missing
\* or the call returned None before line 164 opened the file; a path is
\* returned only with the file rewritten for that page.
C26_HoldsUpToTheWrite ==
    /\ pc \in {"regen_subscribe", "regen_download", "regen_write"} => story_file = file_at_start
    /\ Regenerated =>
        /\ FindPage(file_at_start, page_number) = 0 =>
            result = NullPath /\ story_file = file_at_start /\ requests = 0
        /\ result = NullPath => story_file \in {file_at_start, Truncated}
        /\ result # NullPath =>
            /\ idx = FindPage(file_at_start, page_number)
            /\ idx # 0
            /\ result = output_path(page_number)
            /\ story_file = WithImagePath(file_at_start, idx, result)

\* A page of a story of two pages was regenerated.
C26_Witness ==
    /\ Regenerated
    /\ Len(file_at_start) = 2
    /\ page_number = 2
    /\ result = output_path(2)
    /\ story_file # file_at_start
    /\ story_file[1] = file_at_start[1]

\* ------------------------------------------------------------------------
\* Properties of the LoRATrainer and of the trainer script
\* ------------------------------------------------------------------------

\* the characters whose training has completed
TrainedCharacters == {completed[i].character_name : i \in 1..Len(completed)}

\* the latest completed training of a character
LatestTraining(character_name) ==
    LET last == CHOOSE i \in 1..Len(completed) :
            /\ completed[i].character_name = character_name
            /\ \A k \in (i + 1)..Len(completed) :
                completed[k].character_name # character_name
    IN  completed[last]

\* trained_loras holds exactly the trained characters, each with the
\* trigger word and the URL of its latest completed training
RegistryIsLatestTrainings ==
    /\ DOMAIN trained_loras = TrainedCharacters
    /\ \A character_name \in DOMAIN trained_loras :
        /\ trained_loras[character_name].trigger_word
                = LatestTraining(character_name).trigger_word
        /\ trained_loras[character_name].lora_url
                = LatestTraining(character_name).lora_url

\* the call that this step made
LastCall == trainer_log'[Len(trainer_log')]

\* one call on the trainer: a training without its ZIP file raises without
\* a request, a training that raises leaves trained_loras as it was, a test
\* of a character that is not registered raises without a request, and a
\* test never changes the registry
TrainerCall ==
    Len(trainer_log') = Len(trainer_log) + 1 =>
        /\ (LastCall.op = "train_character_lora" /\ ~LastCall.zip_exists) =>
            LastCall.raised /\ LastCall.requests = <<>>
        /\ (LastCall.op = "train_character_lora" /\ LastCall.raised) =>
            trained_loras' = trained_loras
        /\ (LastCall.op = "test_lora"
            /\ LastCall.character_name \notin DOMAIN trained_loras) =>
            LastCall.raised /\ LastCall.requests = <<>>
        /\ LastCall.op # "train_character_lora" => trained_loras' = trained_loras

\* C28: after any sequence of LoRATrainer operations trained_loras contains
\* exactly the characters whose training completed, each with the trigger
\* word and adapter URL of its latest completed training; a missing ZIP
\* raises before any upload, a failed training leaves trained_loras
\* unchanged, and test_lora for a character that is not in trained_loras
\* raises without a remote request.
C28_RegistryOfCompletedTrainings ==
    /\ []RegistryIsLatestTrainings
    /\ [][TrainerCall]_vars

\* A character was trained twice with different URLs, then a training of
\* the other character failed after its upload.
C28_Witness ==
    /\ tpc = "object"
    /\ Len(completed) = 2
    /\ completed[1].character_name = TobiasDunsmir
    /\ completed[2].character_name = TobiasDunsmir
    /\ completed[1].lora_url # completed[2].lora_url
    /\ Len(trainer_log) = 3
    /\ trainer_log[3].op = "train_character_lora"
    /\ trainer_log[3].character_name = OliveElmmist
    /\ trainer_log[3].raised
    /\ trainer_log[3].requests = <<"upload_file", "subscribe">>
    /\ DOMAIN trained_loras = {TobiasDunsmir}
    /\ trained_loras[TobiasDunsmir].lora_url = completed[2].lora_url

\* A test of a character that was never trained raised.
C28_UnknownTestWitness ==
    /\ tpc = "object"
    /\ Len(trainer_log) = 1
    /\ trainer_log[1].op = "test_lora"
    /\ trainer_log[1].raised
    /\ trainer_log[1].requests = <<>>

\* the calls of the script so far that were made for character k
CallsFor(k) ==
    {i \in 1..Len(trainer_log) :
        /\ trainer_log[i].op # "save_lora_config"
        /\ trainer_log[i].character_name = script_name(k)}

\* the training of character k has completed
TrainingCompleted(k) ==
    \E i \in CallsFor(k) :
        /\ trainer_log[i].op = "train_character_lora"
        /\ ~trainer_log[i].raised

\* the script was stopped by character 1: nothing was done for character 2
\* and no configuration was written
StoppedByCharacter1 ==
    tpc = "exit_1" =>
        /\ trainer_log # <<>>
        /\ trainer_log[Len(trainer_log)].raised
        /\ CallsFor(2) = {}
        /\ \A i \in 1..Len(trainer_log) : trainer_log[i].op # "save_lora_config"
        /\ config_file \in ConfigsBefore

\* nothing for character 2 and no save before character 1 is trained and
\* tested
Character1First ==
    tpc \in {"train_1", "test_1"} =>
        /\ CallsFor(2) = {}
        /\ config_file \in ConfigsBefore

\* the saved configuration holds the characters whose training completed
SavedTrainedCharacters ==
    tpc = "done" =>
        /\ config_file = [exists |-> TRUE, content |-> trained_loras]
        /\ script_name(1) \in DOMAIN config_file.content
        /\ script_name(2) \in DOMAIN config_file.content <=> TrainingCompleted(2)
        /\ DOMAIN config_file.content = TrainedCharacters
        /\ \A k \in {1, 2} :
            script_name(k) \in DOMAIN config_file.content =>
                /\ config_file.content[script_name(k)].trigger_word = script_trigger(k)
                /\ config_file.content[script_name(k)].lora_url
                        = LatestTraining(script_name(k)).lora_url

\* one step of the script: a failure for character 1 ends it, a failure
\* for character 2 leads to the save, and nothing follows the exit
ScriptStep ==
    /\ tpc # "exit_1"
    /\ (tpc \in {"train_1", "test_1"} /\ LastCall.raised) => tpc' = "exit_1"
    /\ (tpc \in {"train_2", "test_2"} /\ LastCall.raised) => tpc' = "save"
    /\ tpc' = "save" => tpc \in {"train_2", "test_2"}
    /\ tpc' = "train_2" => tpc = "test_1" /\ ~LastCall.raised

\* C29: in the trainer script a failure while training or testing
\* character 1 stops the run before character 2 is trained and before a
\* configuration is saved; a failure while training or testing character 2
\* does not stop the run, and the configuration is then saved with every
\* character whose training completed.
C29_Character1StopsCharacter2GoesOn ==
    /\ [](StoppedByCharacter1 /\ Character1First /\ SavedTrainedCharacters)
    /\ [][ScriptStep]_vars

\* The training of character 2 failed and the configuration was saved with
\* character 1 alone.
C29_Witness ==
    /\ tpc = "done"
    /\ Len(trainer_log) = 4
    /\ trainer_log[3].op = "train_character_lora"
    /\ trainer_log[3].character_name = script_name(2)
    /\ trainer_log[3].raised
    /\ config_file.exists
    /\ DOMAIN config_file.content = {script_name(1)}

\* The test of character 1 failed and the script stopped.
C29_ExitWitness ==
    /\ tpc = "exit_1"
    /\ Len(trainer_log) = 2
    /\ trainer_log[2].op = "test_lora"
    /\ DOMAIN trained_loras = {script_name(1)}
    /\ config_file \in ConfigsBefore

\* Character 2 was trained, its test failed, and the configuration was
\* saved with both characters.
C29_TestFailureWitness ==
    /\ tpc = "done"
    /\ Len(trainer_log) = 5
    /\ trainer_log[4].op = "test_lora"
    /\ trainer_log[4].raised
    /\ DOMAIN config_file.content = {script_name(1), script_name(2)}

====
